---- MODULE Spec2Model ----
(***************************************************************************)
(* Cache-consistency layer of the property-listing backend: the Redis      *)
(* client wrapper, CacheService and the domain handlers (property,         *)
(* favorite, auth) that call it around the durable store.                  *)
(***************************************************************************)
EXTENDS Integers, Sequences, FiniteSets, TLC

\* ---------------------------------------------------------------- bounds
MaxProps == 2       \* ObjectIds the durable store can hand out to properties
MaxFavs  == 2       \* ObjectIds the durable store can hand out to favorites
MaxOps   == 2       \* requests served in one behaviour, all handlers in play
MaxDeep  == 3       \* requests served in one behaviour of one controller
MaxCalls == 3       \* direct CacheService calls in one behaviour
MaxTime  == 900     \* seconds a behaviour lets pass

\* ------------------------------------------------------- program constants
TTL_PROPERTY      == 900
TTL_USER          == 1800
TTL_SEARCH        == 300
TTL_FAVORITES     == 600
TTL_PROPERTY_LIST == 600
DefaultPage       == 1
DefaultLimit      == 10

\* ------------------------------------------------------------ identifiers
\* ObjectId strings as the durable store issues them (no ':' and no glob
\* characters); the n-th id handed out to a property / a favorite.
PropOid == <<"a1", "a2", "a3", "a4">>
FavOid  == <<"f1", "f2", "f3", "f4">>
BizId   == <<"PROP1", "PROP2", "PROP3", "PROP4">>

PropIds == {PropOid[i] : i \in 1..MaxProps}
FavIds  == {FavOid[i] : i \in 1..MaxFavs}
Users   == {"u1", "u2"}
Prices  == {1, 2}
Names   == {"ann", "cat"}
Notes   == {"", "n"}

\* (page, limit) pairs requests ask for
PageLimits == {<<1, 10>>, <<2, 1>>}

\* `${n}` for the numbers that occur in keys
NumStr(n) == CASE n = 0 -> "0" [] n = 1 -> "1" [] n = 2 -> "2" [] n = 3 -> "3"
               [] n = 10 -> "10" [] OTHER -> "NaN"

\* --------------------------------------------------------------- values
\* JS null, as getCache returns it on a miss
Null == [null |-> TRUE]
\* no document (findById / findOne returned null)
NoDoc == [nodoc |-> TRUE]

\* a Date instant, named by its ISO-8601 text
Date(iso) == [date |-> iso]
AvailDate == Date("2024-01-01T00:00:00.000Z")

\* `if (x)` on a value that is null or an object
Truthy(v) == v # Null

\* ------------------------------------------------------------- the codec
\* JSON.stringify on one field value: a Date becomes its ISO string
JsonField(x) == IF "date" \in DOMAIN x THEN [str |-> x.date] ELSE x

\* JSON.stringify on a property object
PropertyJSON(p) == [p EXCEPT !.availableFrom = JsonField(@)]

\* The JSON tree that JSON.stringify(data) denotes, for the objects the
\* handlers pass: property objects, list responses embedding them, profiles,
\* status objects.
ToJSON(v) ==
  IF "availableFrom" \in DOMAIN v THEN PropertyJSON(v)
  ELSE IF "properties" \in DOMAIN v
       THEN [v EXCEPT !.properties = [i \in DOMAIN @ |-> PropertyJSON(@[i])]]
  ELSE IF "property" \in DOMAIN v
       THEN [v EXCEPT !.property = PropertyJSON(@)]
  ELSE v

\* JSON.stringify(data): the text, represented by the tree it denotes
Stringify(data) == [json |-> ToJSON(data)]

\* JSON.parse(text)
Parse(text) == text.json

\* ---------------------------------------------------------------- keys
\* A key is the sequence of its ':'-separated segments.
KEYS_PROPERTY(id) == <<"property", id>>
KEYS_USER_PROFILE(id) == <<"user", "profile", id>>
KEYS_USER_PROPERTIES(userId, page, limit) ==
  <<"user", "properties", userId, NumStr(page), NumStr(limit)>>
KEYS_PROPERTY_SEARCH(query) == <<"search", "properties", query>>
KEYS_USER_FAVORITES(userId, page, limit) ==
  <<"user", "favorites", userId, NumStr(page), NumStr(limit)>>
KEYS_FAVORITE_STATUS(userId, propertyId) ==
  <<"favorite", "status", userId, propertyId>>

\* Redis glob "<prefix>:*": the key starts with the prefix segments followed
\* by ':' and anything.
GlobMatch(prefix, key) ==
  /\ Len(key) > Len(prefix)
  /\ SubSeq(key, 1, Len(prefix)) = prefix

PAT_SEARCH == <<"search", "properties">>
PAT_ALL_USER_PROPERTIES == <<"user", "properties">>
PatUserProperties(userId) == <<"user", "properties", userId>>
PatUserFavorites(userId) == <<"user", "favorites", userId>>
PatFavoriteStatus(userId) == <<"favorite", "status", userId>>

\* ---------------------------------------------------------------- state
VARIABLES
  phase,      \* "boot" until startServer has awaited connect(), then "serving", "stopped" after shutdown
  client,     \* RedisClient.client is set (TRUE) or null (FALSE)
  status,     \* transport status of the ioredis client: "wait", "ready", "reconnecting", "end"
  clock,      \* seconds since startup
  cache,      \* the Redis keyspace: key -> [val, ttl, exp], domain = keys present
  properties, \* durable store: _id -> property document or NoDoc
  users,      \* durable store: _id -> user document
  favorites,  \* durable store: set of favorite documents
  nextProp,   \* index of the next ObjectId a created property gets
  nextFav,    \* index of the next ObjectId a created favorite gets
  budget,     \* requests / direct calls this behaviour still serves
  last,       \* what the most recent request did and answered
  hist,       \* the two most recent direct CacheService calls, oldest first
  inflight    \* requests being served step by step: slot -> request

vars == <<phase, client, status, clock, cache, properties, users, favorites,
          nextProp, nextFav, budget, last, hist, inflight>>

dbVars == <<properties, users, favorites, nextProp, nextFav>>
redisVars == <<phase, client, status, clock>>

\* ------------------------------------------------------ the Redis client
\* isConnected() that looks at the client alone
AvailableClientOnly == client

\* redisClient.getClient() is non-null and its commands are answered
Available == client /\ status = "ready"

EmptyCache == [k \in {} |-> Null]

\* Outcome of a call: the keyspace after it, whether it threw, what it returned
Outcome(c, threw, v) == [c |-> c, err |-> threw, val |-> v]

\* a(); then b() in one async function: b runs only when a did not throw
Then(r, F(_)) == IF r.err THEN r ELSE F(r.c)

\* ioredis commands: rejected while the transport is not ready
ClientSetex(c, key, ttl, text) ==
  IF status # "ready" THEN Outcome(c, TRUE, Null)
  ELSE Outcome([k \in DOMAIN c \cup {key} |->
                  IF k = key THEN [val |-> text, ttl |-> ttl, exp |-> clock + ttl]
                  ELSE c[k]],
               FALSE, Null)

ClientGet(c, key) ==
  IF status # "ready" THEN Outcome(c, TRUE, Null)
  ELSE Outcome(c, FALSE, IF key \in DOMAIN c THEN c[key].val ELSE Null)

\* DEL that removes every key of the families of the keys it is given
ClientDelFamilies(c, keys) ==
  IF status # "ready" THEN Outcome(c, TRUE, Null)
  ELSE Outcome([k \in {j \in DOMAIN c : \A d \in keys : d[1] # j[1]} |-> c[k]],
               FALSE, Null)

ClientDel(c, keys) ==
  IF status # "ready" THEN Outcome(c, TRUE, Null)
  ELSE Outcome([k \in DOMAIN c \ keys |-> c[k]], FALSE, Null)

\* client.keys(pattern): the snapshot of the keys matching now
ClientKeys(c, prefix) ==
  IF status # "ready" THEN Outcome(c, TRUE, {})
  ELSE Outcome(c, FALSE, {k \in DOMAIN c : GlobMatch(prefix, k)})

\* ------------------------------------------- CacheService, generic methods
\* JSON.parse succeeds on the texts JSON.stringify produced
Parses(text) == "json" \in DOMAIN text

\* setCache with the adapter's rejection escaping to the caller
SetCacheUncaught(c, key, data, ttl) ==
  IF ~client THEN Outcome(c, FALSE, Null)
  ELSE ClientSetex(c, key, ttl, Stringify(data))

\* setCache storing with SET, without a time to live
SetCachePersist(c, key, data, ttl) ==
  IF ~client \/ status # "ready" THEN Outcome(c, FALSE, Null)
  ELSE Outcome([k \in DOMAIN c \cup {key} |->
                  IF k = key THEN [val |-> Stringify(data), ttl |-> -1, exp |-> clock]
                  ELSE c[k]],
               FALSE, Null)

\* setCache that reads the entry first and leaves a present one as it is
SetCacheNX(c, key, data, ttl) ==
  IF ~client THEN Outcome(c, FALSE, Null)
  ELSE LET g == ClientGet(c, key)
       IN  IF g.err \/ g.val # Null THEN Outcome(c, FALSE, Null)
           ELSE LET r == ClientSetex(c, key, ttl, Stringify(data))
                IN  IF r.err THEN Outcome(c, FALSE, Null)
                    ELSE Outcome(r.c, FALSE, Null)

\* setCache handing setex the TTL in milliseconds
SetCacheMillis(c, key, data, ttl) ==
  IF ~client THEN Outcome(c, FALSE, Null)
  ELSE LET r == ClientSetex(c, key, ttl * 1000, Stringify(data))
       IN  IF r.err THEN Outcome(c, FALSE, Null)
           ELSE Outcome(r.c, FALSE, Null)

SetCache(c, key, data, ttl) ==
  IF ~client THEN Outcome(c, FALSE, Null)
  ELSE LET r == ClientSetex(c, key, ttl, Stringify(data))
       IN  IF r.err THEN Outcome(c, FALSE, Null)      \* catch: logged
           ELSE Outcome(r.c, FALSE, Null)

\* getCache with the failure of JSON.parse escaping to the caller
GetCacheParseUncaught(c, key) ==
  IF ~client THEN Outcome(c, FALSE, Null)
  ELSE LET r == ClientGet(c, key)
       IN  IF r.err THEN Outcome(c, FALSE, Null)
           ELSE IF r.val = Null THEN Outcome(c, FALSE, Null)
           ELSE IF ~Parses(r.val) THEN Outcome(c, TRUE, Null)
           ELSE Outcome(c, FALSE, Parse(r.val))

\* getCache with the adapter's rejection escaping to the caller
GetCacheUncaught(c, key) ==
  IF ~client THEN Outcome(c, FALSE, Null)
  ELSE LET r == ClientGet(c, key)
       IN  IF r.err THEN Outcome(c, TRUE, Null)
           ELSE IF r.val = Null THEN Outcome(c, FALSE, Null)
           ELSE Outcome(c, FALSE, Parse(r.val))

GetCache(c, key) ==
  IF ~client THEN Outcome(c, FALSE, Null)
  ELSE LET r == ClientGet(c, key)
       IN  IF r.err THEN Outcome(c, FALSE, Null)      \* catch: logged
           ELSE IF r.val = Null THEN Outcome(c, FALSE, Null)
           ELSE IF ~Parses(r.val) THEN Outcome(c, FALSE, Null) \* catch
           ELSE Outcome(c, FALSE, Parse(r.val))

\* deleteCache with the adapter's rejection escaping to the caller
DeleteCacheUncaught(c, key) ==
  IF ~client THEN Outcome(c, FALSE, Null)
  ELSE ClientDel(c, {key})

DeleteCache(c, key) ==
  IF ~client THEN Outcome(c, FALSE, Null)
  ELSE LET r == ClientDel(c, {key})
       IN  IF r.err THEN Outcome(c, FALSE, Null)      \* catch: logged
           ELSE Outcome(r.c, FALSE, Null)

DeleteCachePattern(c, prefix) ==
  IF ~client THEN Outcome(c, FALSE, Null)
  ELSE LET ks == ClientKeys(c, prefix)
       IN  IF ks.err THEN Outcome(c, FALSE, Null)     \* catch: logged
           ELSE IF ks.val = {} THEN Outcome(c, FALSE, Null)
           ELSE LET r == ClientDel(c, ks.val)
                IN  IF r.err THEN Outcome(c, FALSE, Null)
                    ELSE Outcome(r.c, FALSE, Null)

\* ------------------------------------------------ CacheService, search key
\* Query parameter names in the order Array.prototype.sort() puts them
ParamOrder == <<"city", "minPrice", "type">>

\* A query object is the sequence of its <<name, value>> pairs in insertion
\* order.  sortedQuery: the same pairs, names ascending.
RECURSIVE SortedFrom(_, _)
SortedFrom(query, r) ==
  IF r > Len(ParamOrder) THEN <<>>
  ELSE SelectSeq(query, LAMBDA pr : pr[1] = ParamOrder[r]) \o SortedFrom(query, r + 1)

\* generateSearchKey that encodes the query as it was enumerated
GenerateSearchKeyUnsorted(query) == [b64 |-> query]

\* generateSearchKey that encodes only the sorted parameter names
GenerateSearchKeyNames(query) ==
  [b64 |-> [i \in DOMAIN SortedFrom(query, 1) |-> SortedFrom(query, 1)[i][1]]]

\* base64 of the JSON text of sortedQuery, represented by the text it encodes
GenerateSearchKey(query) == [b64 |-> SortedFrom(query, 1)]

\* ---------------------------------------------- CacheService, per family
\* cacheProperty keyed by the listing id instead of the document id
CachePropertyByListingId(c, property) ==
  IF property._id = "" THEN Outcome(c, FALSE, Null)
  ELSE SetCache(c, KEYS_PROPERTY(property.id), property, TTL_PROPERTY)

\* cacheProperty that keeps an entry already there (SET ... NX)
CachePropertyIfAbsent(c, property) ==
  IF property._id = "" \/ KEYS_PROPERTY(property._id) \in DOMAIN c
    THEN Outcome(c, FALSE, Null)
  ELSE SetCache(c, KEYS_PROPERTY(property._id), property, TTL_PROPERTY)

CacheProperty(c, property) ==
  IF property._id = "" THEN Outcome(c, FALSE, Null)
  ELSE SetCache(c, KEYS_PROPERTY(property._id), property, TTL_PROPERTY)

GetCachedProperty(c, propertyId) == GetCache(c, KEYS_PROPERTY(propertyId))

\* invalidateProperty that leaves the property's own key alone
InvalidatePropertyListsOnly(c, propertyId) ==
  Then(DeleteCachePattern(c, PAT_SEARCH),
       LAMBDA c2 : DeleteCachePattern(c2, PAT_ALL_USER_PROPERTIES))

InvalidateProperty(c, propertyId) ==
  Then(Then(DeleteCache(c, KEYS_PROPERTY(propertyId)),
            LAMBDA c1 : DeleteCachePattern(c1, PAT_SEARCH)),
       LAMBDA c2 : DeleteCachePattern(c2, PAT_ALL_USER_PROPERTIES))

\* cacheUserProfile written with the property family's TTL
CacheUserProfilePropertyTTL(c, user) ==
  IF user._id = "" THEN Outcome(c, FALSE, Null)
  ELSE SetCache(c, KEYS_USER_PROFILE(user._id), user, TTL_PROPERTY)

CacheUserProfile(c, user) ==
  IF user._id = "" THEN Outcome(c, FALSE, Null)
  ELSE SetCache(c, KEYS_USER_PROFILE(user._id), user, TTL_USER)

GetCachedUserProfile(c, userId) == GetCache(c, KEYS_USER_PROFILE(userId))

InvalidateUserProfile(c, userId) == DeleteCache(c, KEYS_USER_PROFILE(userId))

CachePropertySearch(c, query, results) ==
  SetCache(c, KEYS_PROPERTY_SEARCH(GenerateSearchKey(query)), results, TTL_SEARCH)

GetCachedPropertySearch(c, query) ==
  GetCache(c, KEYS_PROPERTY_SEARCH(GenerateSearchKey(query)))

InvalidatePropertySearches(c) == DeleteCachePattern(c, PAT_SEARCH)

CacheUserProperties(c, userId, page, limit, results) ==
  SetCache(c, KEYS_USER_PROPERTIES(userId, page, limit), results, TTL_PROPERTY_LIST)

GetCachedUserProperties(c, userId, page, limit) ==
  GetCache(c, KEYS_USER_PROPERTIES(userId, page, limit))

\* invalidateUserProperties that deletes only the default page of the user
InvalidateUserPropertiesFirstPage(c, userId) ==
  Then(DeleteCache(c, KEYS_USER_PROPERTIES(userId, DefaultPage, DefaultLimit)),
       LAMBDA c1 : InvalidatePropertySearches(c1))

InvalidateUserProperties(c, userId) ==
  Then(DeleteCachePattern(c, PatUserProperties(userId)),
       LAMBDA c1 : InvalidatePropertySearches(c1))

CacheFavoriteStatus(c, userId, propertyId, st) ==
  SetCache(c, KEYS_FAVORITE_STATUS(userId, propertyId), st, TTL_FAVORITES)

GetCachedFavoriteStatus(c, userId, propertyId) ==
  GetCache(c, KEYS_FAVORITE_STATUS(userId, propertyId))

CacheUserFavorites(c, userId, page, limit, results) ==
  SetCache(c, KEYS_USER_FAVORITES(userId, page, limit), results, TTL_FAVORITES)

GetCachedUserFavorites(c, userId, page, limit) ==
  GetCache(c, KEYS_USER_FAVORITES(userId, page, limit))

\* invalidateFavorites that leaves the user's list pages alone
InvalidateFavoritesStatusOnly(c, userId) ==
  DeleteCachePattern(c, PatFavoriteStatus(userId))

InvalidateFavorites(c, userId) ==
  Then(DeleteCachePattern(c, PatUserFavorites(userId)),
       LAMBDA c1 : DeleteCachePattern(c1, PatFavoriteStatus(userId)))

InvalidateSpecificFavorite(c, userId, propertyId) ==
  Then(DeleteCache(c, KEYS_FAVORITE_STATUS(userId, propertyId)),
       LAMBDA c1 : DeleteCachePattern(c1, PatUserFavorites(userId)))

\* ------------------------------------------------------- durable store
PropertyDoc(oid, biz, owner, price) ==
  [_id |-> oid, id |-> biz, createdBy |-> owner, price |-> price,
   availableFrom |-> AvailDate]

UserDoc(uid, name) == [_id |-> uid, username |-> name, password |-> "hash"]

\* toObject() alone: the document as stored
UserToObject(u) == u

\* userSchema.methods.toJSON: the document without its password
UserToJSON(u) == [_id |-> u._id, username |-> u.username]

NoRequest == [op |-> "none"]

Boot(n) ==
  /\ phase = "boot"
  /\ client = FALSE
  /\ status = "wait"
  /\ clock = 0
  /\ cache = EmptyCache
  /\ properties = [i \in PropIds |->
                     IF i = PropOid[1] THEN PropertyDoc(i, BizId[1], "u1", 1)
                     ELSE NoDoc]
  /\ users = [u \in Users |-> UserDoc(u, IF u = "u1" THEN "ann" ELSE "bob")]
  /\ favorites = {}
  /\ nextProp = 2
  /\ nextFav = 1
  /\ budget = n
  /\ last = NoRequest
  /\ inflight = <<>>
  /\ hist = <<>>

Init == Boot(MaxOps)
InitDeep == Boot(MaxDeep)
InitSvc == Boot(MaxCalls)

\* ------------------------------------------------- RedisClient lifecycle
\* connect() without its try / catch: a missing REDIS_URL or a failed ping
\* rejects, startServer's catch logs it and the process exits
ConnectRaising ==
  /\ phase = "boot"
  /\ \E outcome \in {"nourl", "pong", "pingfailed"} :
       /\ phase' = IF outcome = "pong" THEN "serving" ELSE "stopped"
       /\ client' = (outcome # "nourl")
       /\ status' = CASE outcome = "nourl" -> "wait"
                      [] outcome = "pong" -> "ready"
                      [] OTHER -> "reconnecting"
  /\ UNCHANGED <<clock, cache, dbVars, budget, last, hist, inflight>>

\* startServer awaits redisClient.connect() before listening.  REDIS_URL
\* missing: throws before the client is built.  Otherwise the client is
\* assigned and pinged; a failed ping leaves it assigned and not ready.
Connect ==
  /\ phase = "boot"
  /\ phase' = "serving"
  /\ \E outcome \in {"nourl", "pong", "pingfailed"} :
       /\ client' = (outcome # "nourl")
       /\ status' = CASE outcome = "nourl" -> "wait"
                      [] outcome = "pong" -> "ready"
                      [] OTHER -> "reconnecting"
  /\ UNCHANGED <<clock, cache, dbVars, budget, last, hist, inflight>>

\* the transport loses the connection / re-establishes it
TransportDown ==
  /\ phase = "serving" /\ client /\ status = "ready"
  /\ status' = "reconnecting"
  /\ UNCHANGED <<phase, client, clock, cache, dbVars, budget, last, hist, inflight>>

TransportUp ==
  /\ phase = "serving" /\ client /\ status = "reconnecting"
  /\ status' = "ready"
  /\ UNCHANGED <<phase, client, clock, cache, dbVars, budget, last, hist, inflight>>

\* SIGINT / SIGTERM: redisClient.disconnect(), then the process exits
Disconnect ==
  /\ phase = "serving"
  /\ phase' = "stopped"
  /\ client' = FALSE
  /\ status' = IF client THEN "end" ELSE status
  /\ UNCHANGED <<clock, cache, dbVars, budget, last, hist, inflight>>

\* ------------------------------------------- direct CacheService calls
\* One call of a public CacheService method on the keys ks with outcome r;
\* hist keeps this call and the one before it.
Remember(sq, rec) == IF sq = <<>> THEN <<rec>> ELSE <<sq[Len(sq)], rec>>

Call(name, arg, ks, r) ==
  /\ phase = "serving"
  /\ budget > 0
  /\ budget' = budget - 1
  /\ cache' = r.c
  /\ hist' = Remember(hist, [op |-> name, arg |-> arg, keys |-> ks,
                              at |-> clock, avail |-> Available,
                              had |-> (ks \cap DOMAIN cache # {}),
                              err |-> r.err, val |-> r.val,
                              changed |-> (r.c # cache)])
  /\ UNCHANGED <<redisVars, dbVars, last, inflight>>

\* the keys present that a glob matches
Matching(prefix) == {k \in DOMAIN cache : GlobMatch(prefix, k)}

\* property objects handed to cacheProperty; the last one has no _id
SampleProperties ==
  {PropertyDoc(PropOid[1], BizId[1], "u1", pr) : pr \in Prices}
    \cup {PropertyDoc(PropOid[2], BizId[2], "u2", 1),
          PropertyDoc("", BizId[1], "u1", 1)}

Queries == {<<>>, <<<<"minPrice", "2">>>>}

ListResponse(items, total, page, limit) ==
  [success |-> TRUE, properties |-> items, total |-> total,
   page |-> page, limit |-> limit]

SampleList == ListResponse(<<PropertyDoc(PropOid[1], BizId[1], "u1", 1)>>, 1, 1, 10)

SvcCacheProperty ==
  \E p \in SampleProperties :
    Call("cacheProperty", p, {KEYS_PROPERTY(p._id)}, CacheProperty(cache, p))

SvcGetCachedProperty ==
  \E i \in PropIds :
    Call("getCachedProperty", i, {KEYS_PROPERTY(i)}, GetCachedProperty(cache, i))

SvcInvalidateProperty ==
  \E i \in PropIds :
    Call("invalidateProperty", i, {KEYS_PROPERTY(i)}, InvalidateProperty(cache, i))

SvcCacheUserProfile ==
  LET u == UserToJSON(UserDoc("u1", "ann"))
  IN  Call("cacheUserProfile", u, {KEYS_USER_PROFILE("u1")}, CacheUserProfile(cache, u))

SvcGetCachedUserProfile ==
  Call("getCachedUserProfile", "u1", {KEYS_USER_PROFILE("u1")},
       GetCachedUserProfile(cache, "u1"))

SvcInvalidateUserProfile ==
  Call("invalidateUserProfile", "u1", {KEYS_USER_PROFILE("u1")},
       InvalidateUserProfile(cache, "u1"))

SvcCachePropertySearch ==
  \E q \in Queries :
    Call("cachePropertySearch", q, {KEYS_PROPERTY_SEARCH(GenerateSearchKey(q))},
         CachePropertySearch(cache, q, SampleList))

SvcGetCachedPropertySearch ==
  \E q \in Queries :
    Call("getCachedPropertySearch", q, {KEYS_PROPERTY_SEARCH(GenerateSearchKey(q))},
         GetCachedPropertySearch(cache, q))

SvcInvalidatePropertySearches ==
  Call("invalidatePropertySearches", <<>>, Matching(PAT_SEARCH),
       InvalidatePropertySearches(cache))

SvcCacheUserProperties ==
  \E pl \in {<<1, 10>>, <<2, 10>>} :
    Call("cacheUserProperties", <<"u1", pl>>,
         {KEYS_USER_PROPERTIES("u1", pl[1], pl[2])},
         CacheUserProperties(cache, "u1", pl[1], pl[2],
                             ListResponse(SampleList.properties, 1, pl[1], pl[2])))

SvcGetCachedUserProperties ==
  \E pl \in {<<1, 10>>, <<2, 10>>} :
    Call("getCachedUserProperties", <<"u1", pl>>,
         {KEYS_USER_PROPERTIES("u1", pl[1], pl[2])},
         GetCachedUserProperties(cache, "u1", pl[1], pl[2]))

SvcInvalidateUserProperties ==
  \E u \in Users :
    Call("invalidateUserProperties", u, Matching(PatUserProperties(u)),
         InvalidateUserProperties(cache, u))

SampleStatuses ==
  {[isFavorited |-> FALSE], [isFavorited |-> TRUE, favoriteId |-> FavOid[1]]}

SvcCacheFavoriteStatus ==
  \E st \in SampleStatuses :
    Call("cacheFavoriteStatus", <<"u1", PropOid[1], st>>,
         {KEYS_FAVORITE_STATUS("u1", PropOid[1])},
         CacheFavoriteStatus(cache, "u1", PropOid[1], st))

SvcGetCachedFavoriteStatus ==
  Call("getCachedFavoriteStatus", <<"u1", PropOid[1]>>,
       {KEYS_FAVORITE_STATUS("u1", PropOid[1])},
       GetCachedFavoriteStatus(cache, "u1", PropOid[1]))

SampleFavList == [success |-> TRUE, favorites |-> <<>>, total |-> 0,
                  page |-> 1, limit |-> 10]

SvcCacheUserFavorites ==
  Call("cacheUserFavorites", "u1", {KEYS_USER_FAVORITES("u1", 1, 10)},
       CacheUserFavorites(cache, "u1", 1, 10, SampleFavList))

SvcGetCachedUserFavorites ==
  Call("getCachedUserFavorites", "u1", {KEYS_USER_FAVORITES("u1", 1, 10)},
       GetCachedUserFavorites(cache, "u1", 1, 10))

SvcInvalidateFavorites ==
  \E u \in Users :
    Call("invalidateFavorites", u,
         Matching(PatUserFavorites(u)) \cup Matching(PatFavoriteStatus(u)),
         InvalidateFavorites(cache, u))

SvcInvalidateSpecificFavorite ==
  Call("invalidateSpecificFavorite", <<"u1", PropOid[1]>>,
       {KEYS_FAVORITE_STATUS("u1", PropOid[1])} \cup Matching(PatUserFavorites("u1")),
       InvalidateSpecificFavorite(cache, "u1", PropOid[1]))

NextSvc ==
  \/ Connect \/ TransportDown \/ TransportUp
  \/ SvcCacheProperty \/ SvcGetCachedProperty \/ SvcInvalidateProperty
  \/ SvcCacheUserProfile \/ SvcGetCachedUserProfile \/ SvcInvalidateUserProfile
  \/ SvcCachePropertySearch \/ SvcGetCachedPropertySearch
  \/ SvcInvalidatePropertySearches
  \/ SvcCacheUserProperties \/ SvcGetCachedUserProperties
  \/ SvcInvalidateUserProperties
  \/ SvcCacheFavoriteStatus \/ SvcGetCachedFavoriteStatus
  \/ SvcCacheUserFavorites \/ SvcGetCachedUserFavorites
  \/ SvcInvalidateFavorites \/ SvcInvalidateSpecificFavorite

SpecSvc == InitSvc /\ [][NextSvc]_vars

\* the client's whole life, with CacheService called along the way
NextClient == NextSvc \/ Disconnect

SpecClient == Init /\ [][NextClient]_vars

\* ---- search keys
\* Number(s) for the query-string values in use
NumOf(s) == CASE s = "1" -> 1 [] s = "2" -> 2 [] s = "3" -> 3 [] OTHER -> 0

\* query[name], or "" when the parameter is absent
Param(query, name) ==
  LET hits == SelectSeq(query, LAMBDA pr : pr[1] = name)
  IN  IF hits = <<>> THEN "" ELSE hits[Len(hits)][2]

\* query objects with up to two parameters, in each enumeration order
OrderedQueries ==
  LET cs == {<<"city", "x">>}
      ms == {<<"minPrice", "1">>, <<"minPrice", "2">>}
  IN  {<<>>} \cup {<<pr>> : pr \in cs \cup ms}
        \cup {<<c, m>> : c \in cs, m \in ms} \cup {<<m, c>> : c \in cs, m \in ms}

\* the number of properties a query matches in the store at hand: one number
\* per set of (name, value) pairs
MatchCount(query) ==
  (IF Param(query, "city") = "" THEN 0 ELSE 4) + NumOf(Param(query, "minPrice"))

\* the response getProperties builds for a query
ResultFor(query) == ListResponse(<<>>, MatchCount(query), DefaultPage, DefaultLimit)

KeyCachePropertySearch ==
  \E q \in OrderedQueries :
    Call("cachePropertySearch", q, {KEYS_PROPERTY_SEARCH(GenerateSearchKey(q))},
         CachePropertySearch(cache, q, ResultFor(q)))

KeyGetCachedPropertySearch ==
  \E q \in OrderedQueries :
    Call("getCachedPropertySearch", q, {KEYS_PROPERTY_SEARCH(GenerateSearchKey(q))},
         GetCachedPropertySearch(cache, q))

NextKey ==
  \/ Connect \/ KeyCachePropertySearch \/ KeyGetCachedPropertySearch

SpecKey == InitSvc /\ [][NextKey]_vars

\* ---- the passing of time
\* seconds that pass between two calls
Durations == {299, 300}

\* d seconds pass: Redis drops the keys whose time to live has run out
Elapse ==
  \E d \in Durations :
    /\ phase = "serving"
    /\ clock + d <= MaxTime
    /\ clock' = clock + d
    /\ cache' = [k \in {j \in DOMAIN cache : cache[j].exp > clock + d} |-> cache[k]]
    /\ UNCHANGED <<phase, client, status, dbVars, budget, last, hist, inflight>>

NextTtl ==
  \/ Connect \/ Elapse
  \/ SvcCacheProperty \/ SvcGetCachedProperty
  \/ SvcCachePropertySearch \/ SvcGetCachedPropertySearch
  \/ SvcCacheFavoriteStatus \/ SvcGetCachedFavoriteStatus

SpecTtl == InitSvc /\ [][NextTtl]_vars

\* ------------------------------------------------------ domain handlers
\* What a handler did: HTTP status, body handed to res.json, keyspace after
\* it, the key it looked up first (<<>> when none), whether that lookup hit,
\* and how many durable-store reads it made.
Reply(st, body, c, key, hit, reads) ==
  [status |-> st, body |-> body, c |-> c, key |-> key, hit |-> hit, dbReads |-> reads]

Fail(msg) == [success |-> FALSE, message |-> msg]

\* catch (error) { res.status(500) }
InternalError(c, key, reads) == Reply(500, Fail("Internal server error"), c, key, FALSE, reads)

\* One request served with reply r; res.json sends the JSON text of the body.
Served(name, user, arg, r) ==
  /\ phase = "serving"
  /\ budget > 0
  /\ budget' = budget - 1
  /\ cache' = r.c
  /\ last' = [op |-> name, user |-> user, arg |-> arg, key |-> r.key,
              pre |-> cache, avail |-> Available,
              status |-> r.status, body |-> ToJSON(r.body),
              hit |-> r.hit, dbReads |-> r.dbReads]
  /\ UNCHANGED <<redisVars, hist, inflight>>

\* ---- durable-store queries
\* documents with _id in ids, newest first (sort createdAt: -1)
RECURSIVE NewestFirst(_, _)
NewestFirst(ids, i) ==
  IF i = 0 THEN <<>>
  ELSE (IF PropOid[i] \in ids THEN <<properties[PropOid[i]]>> ELSE <<>>)
         \o NewestFirst(ids, i - 1)

\* .skip((page - 1) * limit).limit(limit)
PageOf(sq, page, limit) ==
  LET skip == (page - 1) * limit
      to   == IF skip + limit < Len(sq) THEN skip + limit ELSE Len(sq)
  IN  SubSeq(sq, skip + 1, to)

\* Math.ceil(total / limit)
TotalPages(total, limit) == (total + limit - 1) \div limit

Existing == {i \in PropIds : properties[i] # NoDoc}

\* Property.find(filter) of getProperties: only the price range is in use
MatchesQuery(doc, query) ==
  Param(query, "minPrice") = "" \/ doc.price >= NumOf(Param(query, "minPrice"))

PropertiesResponse(docs, total, page, limit) ==
  [success |-> TRUE, properties |-> docs, total |-> total, page |-> page,
   limit |-> limit, totalPages |-> TotalPages(total, limit)]

\* for (const property of properties) await CacheService.cacheProperty(...)
RECURSIVE CacheEach(_, _, _)
CacheEach(r, docs, i) ==
  IF i > Len(docs) THEN r
  ELSE CacheEach(Then(r, LAMBDA c1 : CacheProperty(c1, docs[i])), docs, i + 1)

\* ---- PropertyController
HGetPropertyById(propertyId) ==
  LET key == KEYS_PROPERTY(propertyId)
      g   == GetCachedProperty(cache, propertyId)
  IN  IF g.err THEN InternalError(cache, key, 0)
      ELSE IF Truthy(g.val)
        THEN Reply(200, [success |-> TRUE, property |-> g.val], cache, key, TRUE, 0)
      ELSE IF properties[propertyId] = NoDoc
        THEN Reply(404, Fail("Property not found"), cache, key, FALSE, 1)
      ELSE LET w == CacheProperty(cache, properties[propertyId])
           IN  IF w.err THEN InternalError(w.c, key, 1)
               ELSE Reply(200, [success |-> TRUE, property |-> properties[propertyId]],
                          w.c, key, FALSE, 1)

GetPropertyById ==
  \E i \in PropIds :
    /\ Served("getPropertyById", "", i, HGetPropertyById(i))
    /\ UNCHANGED dbVars

HGetProperties(query) ==
  LET key == KEYS_PROPERTY_SEARCH(GenerateSearchKey(query))
      g   == GetCachedPropertySearch(cache, query)
  IN  IF g.err THEN InternalError(cache, key, 0)
      ELSE IF Truthy(g.val) THEN Reply(200, g.val, cache, key, TRUE, 0)
      ELSE LET ids  == {i \in Existing : MatchesQuery(properties[i], query)}
               docs == PageOf(NewestFirst(ids, MaxProps), DefaultPage, DefaultLimit)
               resp == PropertiesResponse(docs, Cardinality(ids), DefaultPage, DefaultLimit)
               w    == CacheEach(CachePropertySearch(cache, query, resp), docs, 1)
           IN  IF w.err THEN InternalError(w.c, key, 2)
               ELSE Reply(200, resp, w.c, key, FALSE, 2)

GetProperties ==
  \E q \in Queries :
    /\ Served("getProperties", "", q, HGetProperties(q))
    /\ UNCHANGED dbVars

HGetUserProperties(userId, page, limit) ==
  LET key == KEYS_USER_PROPERTIES(userId, page, limit)
      g   == GetCachedUserProperties(cache, userId, page, limit)
  IN  IF g.err THEN InternalError(cache, key, 0)
      ELSE IF Truthy(g.val) THEN Reply(200, g.val, cache, key, TRUE, 0)
      ELSE LET ids  == {i \in Existing : properties[i].createdBy = userId}
               docs == PageOf(NewestFirst(ids, MaxProps), page, limit)
               resp == PropertiesResponse(docs, Cardinality(ids), page, limit)
               w    == CacheEach(CacheUserProperties(cache, userId, page, limit, resp),
                                 docs, 1)
           IN  IF w.err THEN InternalError(w.c, key, 2)
               ELSE Reply(200, resp, w.c, key, FALSE, 2)

GetUserProperties ==
  \E u \in Users, pl \in PageLimits :
    /\ Served("getUserProperties", u, pl, HGetUserProperties(u, pl[1], pl[2]))
    /\ UNCHANGED dbVars

\* Property.findOne({ id }) finds a document with this business id
BizTaken(biz) == \E i \in Existing : properties[i].id = biz

HCreateProperty(userId, doc) ==
  LET w == Then(Then(CacheProperty(cache, doc),
                     LAMBDA c1 : InvalidatePropertySearches(c1)),
                LAMBDA c2 : InvalidateUserProperties(c2, userId))
  IN  IF w.err THEN InternalError(w.c, <<>>, 1)
      ELSE Reply(201, [success |-> TRUE, property |-> doc], w.c, <<>>, FALSE, 1)

CreateProperty ==
  \E u \in Users, k \in 1..MaxProps, pr \in Prices :
    IF BizTaken(BizId[k])
    THEN /\ Served("createProperty", u, BizId[k],
                   Reply(400, Fail("Property with this ID already exists"),
                         cache, <<>>, FALSE, 1))
         /\ UNCHANGED dbVars
    ELSE /\ nextProp <= MaxProps
         /\ LET doc == PropertyDoc(PropOid[nextProp], BizId[k], u, pr)
            IN  /\ properties' = [properties EXCEPT ![doc._id] = doc]
                /\ nextProp' = nextProp + 1
                /\ Served("createProperty", u, BizId[k], HCreateProperty(u, doc))
         /\ UNCHANGED <<users, favorites, nextFav>>

\* checkPropertyOwnership: "ok" lets the request through to the controller
Ownership(userId, propertyId) ==
  IF properties[propertyId] = NoDoc THEN 404
  ELSE IF properties[propertyId].createdBy # userId THEN 403
  ELSE 200

\* updateProperty that forgets the owner's list pages
HUpdatePropertyKeepLists(userId, doc) ==
  LET w == Then(CacheProperty(cache, doc),
                LAMBDA c1 : InvalidatePropertySearches(c1))
  IN  IF w.err THEN InternalError(w.c, <<>>, 2)
      ELSE Reply(200, [success |-> TRUE, property |-> doc], w.c, <<>>, FALSE, 2)

HUpdateProperty(userId, doc) ==
  LET w == Then(Then(CacheProperty(cache, doc),
                     LAMBDA c1 : InvalidatePropertySearches(c1)),
                LAMBDA c2 : InvalidateUserProperties(c2, userId))
  IN  IF w.err THEN InternalError(w.c, <<>>, 2)
      ELSE Reply(200, [success |-> TRUE, property |-> doc], w.c, <<>>, FALSE, 2)

\* PUT / PATCH /:id: authMiddleware, checkPropertyOwnership, updateProperty
UpdateProperty ==
  \E u \in Users, i \in PropIds, pr \in Prices :
    LET own == Ownership(u, i)
    IN  IF own # 200
        THEN /\ Served("updateProperty", u, i,
                       Reply(own, Fail("denied"), cache, <<>>, FALSE, 1))
             /\ UNCHANGED dbVars
        ELSE LET doc == [properties[i] EXCEPT !.price = pr]
             IN  /\ properties' = [properties EXCEPT ![i] = doc]
                 /\ Served("updateProperty", u, i, HUpdateProperty(u, doc))
                 /\ UNCHANGED <<users, favorites, nextProp, nextFav>>

\* deleteProperty that clears the lists and leaves the property's key alone
HDeletePropertyKeepOwnKey(userId, propertyId) ==
  LET w == InvalidateUserProperties(cache, userId)
  IN  IF w.err THEN InternalError(w.c, <<>>, 2)
      ELSE Reply(200, [success |-> TRUE], w.c, <<>>, FALSE, 2)

HDeleteProperty(userId, propertyId) ==
  LET w == Then(InvalidateProperty(cache, propertyId),
                LAMBDA c1 : InvalidateUserProperties(c1, userId))
  IN  IF w.err THEN InternalError(w.c, <<>>, 2)
      ELSE Reply(200, [success |-> TRUE], w.c, <<>>, FALSE, 2)

\* DELETE /:id: authMiddleware, checkPropertyOwnership, deleteProperty
DeleteProperty ==
  \E u \in Users, i \in PropIds :
    LET own == Ownership(u, i)
    IN  IF own # 200
        THEN /\ Served("deleteProperty", u, i,
                       Reply(own, Fail("denied"), cache, <<>>, FALSE, 1))
             /\ UNCHANGED dbVars
        ELSE /\ properties' = [properties EXCEPT ![i] = NoDoc]
             /\ Served("deleteProperty", u, i, HDeleteProperty(u, i))
             /\ UNCHANGED <<users, favorites, nextProp, nextFav>>

NextProperty ==
  \/ Connect \/ TransportDown \/ TransportUp
  \/ GetPropertyById \/ GetProperties \/ GetUserProperties
  \/ CreateProperty \/ UpdateProperty \/ DeleteProperty

SpecProperty == InitDeep /\ [][NextProperty]_vars

\* ---- FavoriteController
\* JS null in a field that otherwise holds an id string
NullId == "null"

\* Favorite.findOne({ userId, propertyId })
FindFavorite(userId, propertyId) ==
  IF \E f \in favorites : f.userId = userId /\ f.propertyId = propertyId
  THEN CHOOSE f \in favorites : f.userId = userId /\ f.propertyId = propertyId
  ELSE NoDoc

HAddExisting(userId, propertyId, existing, key) ==
  LET w == CacheFavoriteStatus(cache, userId, propertyId,
                               [isFavorited |-> TRUE, favoriteId |-> existing._id])
  IN  IF w.err THEN InternalError(w.c, key, 2)
      ELSE Reply(400, Fail("Property is already in your favorites"), w.c, key, FALSE, 2)

HAddCreated(userId, propertyId, favorite, key) ==
  LET w == Then(CacheFavoriteStatus(cache, userId, propertyId,
                                    [isFavorited |-> TRUE, favoriteId |-> favorite._id]),
                LAMBDA c1 : InvalidateFavorites(c1, userId))
  IN  IF w.err THEN InternalError(w.c, key, 3)
      ELSE Reply(201, [success |-> TRUE, favorite |-> favorite], w.c, key, FALSE, 3)

AddToFavorites ==
  \E u \in Users, i \in PropIds, n \in Notes :
    LET key == KEYS_FAVORITE_STATUS(u, i)
        g   == GetCachedFavoriteStatus(cache, u, i)
        existing == FindFavorite(u, i)
    IN  IF properties[i] = NoDoc
        THEN /\ Served("addToFavorites", u, i,
                       Reply(404, Fail("Property not found"), cache, key, FALSE, 1))
             /\ UNCHANGED dbVars
        ELSE IF g.err
        THEN /\ Served("addToFavorites", u, i, InternalError(cache, key, 1))
             /\ UNCHANGED dbVars
        ELSE IF Truthy(g.val) /\ g.val.isFavorited
        THEN /\ Served("addToFavorites", u, i,
                       Reply(400, Fail("Property is already in your favorites"),
                             cache, key, TRUE, 1))
             /\ UNCHANGED dbVars
        ELSE IF existing # NoDoc
        THEN /\ Served("addToFavorites", u, i, HAddExisting(u, i, existing, key))
             /\ UNCHANGED dbVars
        ELSE /\ nextFav <= MaxFavs
             /\ LET favorite == [_id |-> FavOid[nextFav], userId |-> u,
                                 propertyId |-> i, notes |-> n]
                IN  /\ favorites' = favorites \cup {favorite}
                    /\ nextFav' = nextFav + 1
                    /\ Served("addToFavorites", u, i, HAddCreated(u, i, favorite, key))
             /\ UNCHANGED <<properties, users, nextProp>>

HRemoveFromFavorites(userId, propertyId) ==
  LET w == Then(CacheFavoriteStatus(cache, userId, propertyId, [isFavorited |-> FALSE]),
                LAMBDA c1 : InvalidateFavorites(c1, userId))
  IN  IF w.err THEN InternalError(w.c, <<>>, 1)
      ELSE Reply(200, [success |-> TRUE], w.c, <<>>, FALSE, 1)

RemoveFromFavorites ==
  \E u \in Users, i \in PropIds :
    LET deleted == FindFavorite(u, i)
    IN  IF deleted = NoDoc
        THEN /\ Served("removeFromFavorites", u, i,
                       Reply(404, Fail("Favorite not found"), cache, <<>>, FALSE, 1))
             /\ UNCHANGED dbVars
        ELSE /\ favorites' = favorites \ {deleted}
             /\ Served("removeFromFavorites", u, i, HRemoveFromFavorites(u, i))
             /\ UNCHANGED <<properties, users, nextProp, nextFav>>

HUpdateFavorite(userId, updated) ==
  LET w == InvalidateFavorites(cache, userId)
  IN  IF w.err THEN InternalError(w.c, <<>>, 1)
      ELSE Reply(200, [success |-> TRUE, favorite |-> updated], w.c, <<>>, FALSE, 1)

UpdateFavorite ==
  \E u \in Users, id \in FavIds, n \in Notes :
    IF \E f \in favorites : f._id = id /\ f.userId = u
    THEN LET old     == CHOOSE f \in favorites : f._id = id /\ f.userId = u
             updated == [old EXCEPT !.notes = n]
         IN  /\ favorites' = (favorites \ {old}) \cup {updated}
             /\ Served("updateFavorite", u, id, HUpdateFavorite(u, updated))
             /\ UNCHANGED <<properties, users, nextProp, nextFav>>
    ELSE /\ Served("updateFavorite", u, id,
                   Reply(404, Fail("Favorite not found"), cache, <<>>, FALSE, 1))
         /\ UNCHANGED dbVars

HCheckFavoriteStatus(userId, propertyId) ==
  LET key == KEYS_FAVORITE_STATUS(userId, propertyId)
      g   == GetCachedFavoriteStatus(cache, userId, propertyId)
      favorite == FindFavorite(userId, propertyId)
      cacheStatus == IF favorite = NoDoc THEN [isFavorited |-> FALSE]
                     ELSE [isFavorited |-> TRUE, favoriteId |-> favorite._id]
  IN  IF g.err THEN InternalError(cache, key, 0)
      ELSE IF Truthy(g.val)
        THEN Reply(200, [success |-> TRUE, isFavorited |-> g.val.isFavorited,
                         favoriteId |-> IF "favoriteId" \in DOMAIN g.val
                                        THEN g.val.favoriteId ELSE NullId],
                   cache, key, TRUE, 0)
      ELSE LET w == CacheFavoriteStatus(cache, userId, propertyId, cacheStatus)
           IN  IF w.err THEN InternalError(w.c, key, 1)
               ELSE Reply(200, [success |-> TRUE, isFavorited |-> favorite # NoDoc,
                                favoriteId |-> IF favorite = NoDoc THEN NullId
                                               ELSE favorite._id],
                          w.c, key, FALSE, 1)

CheckFavoriteStatus ==
  \E u \in Users, i \in PropIds :
    /\ Served("checkFavoriteStatus", u, i, HCheckFavoriteStatus(u, i))
    /\ UNCHANGED dbVars

\* $lookup + $unwind + $project: the favorite with the projected fields of
\* its property; a favorite whose property is gone drops out
FavoriteView(f) ==
  [_id |-> f._id, userId |-> f.userId, propertyId |-> f.propertyId,
   notes |-> f.notes,
   property |-> [_id |-> f.propertyId, id |-> properties[f.propertyId].id,
                     price |-> properties[f.propertyId].price]]

\* the user's favorites that pass the $match stages, in sort order
RECURSIVE FavoritesInOrder(_, _, _)
FavoritesInOrder(fs, i, step) ==
  IF i < 1 \/ i > MaxFavs THEN <<>>
  ELSE (IF \E f \in fs : f._id = FavOid[i]
        THEN <<FavoriteView(CHOOSE f \in fs : f._id = FavOid[i])>> ELSE <<>>)
         \o FavoritesInOrder(fs, i + step, step)

SortBys == {"newest", "oldest"}
Searches == {"", "n"}

\* the aggregation pipeline of getUserFavorites and the response built from it
FavoritesResponse(userId, page, limit, search, sortBy) ==
  LET fs  == {f \in favorites : /\ f.userId = userId
                                /\ properties[f.propertyId] # NoDoc
                                /\ (search = "" \/ f.notes = search)}
      all == IF sortBy = "oldest" THEN FavoritesInOrder(fs, 1, 1)
             ELSE FavoritesInOrder(fs, MaxFavs, -1)
  IN  [success |-> TRUE, favorites |-> PageOf(all, page, limit),
       total |-> Len(all), page |-> page, limit |-> limit,
       totalPages |-> TotalPages(Len(all), limit)]

\* getUserFavorites that uses the cache for filtered requests as well
HGetUserFavoritesCacheAll(userId, page, limit, search, sortBy) ==
  LET key == KEYS_USER_FAVORITES(userId, page, limit)
      g   == GetCachedUserFavorites(cache, userId, page, limit)
      resp == FavoritesResponse(userId, page, limit, search, sortBy)
      w   == CacheUserFavorites(cache, userId, page, limit, resp)
  IN  IF g.err THEN InternalError(cache, key, 0)
      ELSE IF Truthy(g.val) THEN Reply(200, g.val, cache, key, TRUE, 0)
      ELSE IF w.err THEN InternalError(w.c, key, 2)
      ELSE Reply(200, resp, w.c, key, FALSE, 2)

HGetUserFavorites(userId, page, limit, search, sortBy) ==
  LET key == KEYS_USER_FAVORITES(userId, page, limit)
      g   == IF search = "" THEN GetCachedUserFavorites(cache, userId, page, limit)
             ELSE Outcome(cache, FALSE, Null)
      resp == FavoritesResponse(userId, page, limit, search, sortBy)
      w   == IF search = "" THEN CacheUserFavorites(cache, userId, page, limit, resp)
             ELSE Outcome(cache, FALSE, Null)
      k   == IF search = "" THEN key ELSE <<>>
  IN  IF g.err THEN InternalError(cache, k, 0)
      ELSE IF Truthy(g.val) THEN Reply(200, g.val, cache, k, TRUE, 0)
      ELSE IF w.err THEN InternalError(w.c, k, 2)
      ELSE Reply(200, resp, w.c, k, FALSE, 2)

GetUserFavorites ==
  \E u \in Users, pl \in PageLimits, s \in Searches, sb \in SortBys :
    /\ Served("getUserFavorites", u, <<pl, s, sb>>,
              HGetUserFavorites(u, pl[1], pl[2], s, sb))
    /\ UNCHANGED dbVars

NextFavorite ==
  \/ Connect \/ TransportDown \/ TransportUp
  \/ AddToFavorites \/ RemoveFromFavorites \/ UpdateFavorite
  \/ CheckFavoriteStatus \/ GetUserFavorites

SpecFavorite == InitDeep /\ [][NextFavorite]_vars

\* a server started over a durable store in which u1 has two favorites, one
\* with the note that the search looks for
BootStocked(n) ==
  /\ phase = "boot" /\ client = FALSE /\ status = "wait" /\ clock = 0
  /\ cache = EmptyCache
  /\ properties = [i \in PropIds |->
                     IF i = PropOid[1] THEN PropertyDoc(i, BizId[1], "u1", 1)
                     ELSE IF i = PropOid[2] THEN PropertyDoc(i, BizId[2], "u2", 2)
                     ELSE NoDoc]
  /\ users = [u \in Users |-> UserDoc(u, IF u = "u1" THEN "ann" ELSE "bob")]
  /\ favorites = {[_id |-> FavOid[k], userId |-> "u1", propertyId |-> PropOid[k],
                    notes |-> IF k = 1 THEN "n" ELSE ""] : k \in 1..2}
  /\ nextProp = 3
  /\ nextFav = 3
  /\ budget = n
  /\ last = NoRequest
  /\ inflight = <<>>
  /\ hist = <<>>

NextListing == Connect \/ TransportDown \/ TransportUp \/ GetUserFavorites

SpecListing == BootStocked(MaxDeep) /\ [][NextListing]_vars

\* favorites lists read while the properties they embed are updated or deleted
NextEmbed ==
  \/ Connect \/ TransportDown \/ TransportUp
  \/ GetUserFavorites \/ GetPropertyById \/ UpdateProperty \/ DeleteProperty

SpecEmbed == BootStocked(MaxDeep) /\ [][NextEmbed]_vars

\* adding, checking and removing favorites, one request more
NextTruth ==
  \/ Connect \/ TransportDown \/ TransportUp
  \/ AddToFavorites \/ RemoveFromFavorites \/ CheckFavoriteStatus

SpecTruth == Boot(MaxDeep + 1) /\ [][NextTruth]_vars

\* ---- AuthController
\* getProfile that answers a miss from the store without filling the cache
HGetProfileNoFill(userId) ==
  LET key == KEYS_USER_PROFILE(userId)
      g   == GetCachedUserProfile(cache, userId)
  IN  IF g.err THEN InternalError(cache, key, 0)
      ELSE IF Truthy(g.val)
        THEN Reply(200, [success |-> TRUE, user |-> g.val], cache, key, TRUE, 0)
      ELSE Reply(200, [success |-> TRUE, user |-> UserToJSON(users[userId])],
                 cache, key, FALSE, 1)

HGetProfile(userId) ==
  LET key == KEYS_USER_PROFILE(userId)
      g   == GetCachedUserProfile(cache, userId)
      userResponse == UserToJSON(users[userId])
  IN  IF g.err THEN InternalError(cache, key, 0)
      ELSE IF Truthy(g.val)
        THEN Reply(200, [success |-> TRUE, user |-> g.val], cache, key, TRUE, 0)
      ELSE LET w == CacheUserProfile(cache, userResponse)
           IN  IF w.err THEN InternalError(w.c, key, 1)
               ELSE Reply(200, [success |-> TRUE, user |-> userResponse],
                          w.c, key, FALSE, 1)

GetProfile ==
  \E u \in Users :
    /\ Served("getProfile", u, u, HGetProfile(u))
    /\ UNCHANGED dbVars

\* updateProfile that drops the cached profile instead of overwriting it
HUpdateProfileInvalidate(updatedUser) ==
  LET w == InvalidateUserProfile(cache, updatedUser._id)
  IN  IF w.err THEN InternalError(w.c, <<>>, 2)
      ELSE Reply(200, [success |-> TRUE, user |-> UserToJSON(updatedUser)],
                 w.c, <<>>, FALSE, 2)

HUpdateProfile(updatedUser) ==
  LET w == CacheUserProfile(cache, UserToJSON(updatedUser))
  IN  IF w.err THEN InternalError(w.c, <<>>, 2)
      ELSE Reply(200, [success |-> TRUE, user |-> UserToJSON(updatedUser)],
                 w.c, <<>>, FALSE, 2)

UpdateProfile ==
  \E u \in Users, n \in Names :
    IF \E v \in Users \ {u} : users[v].username = n
    THEN /\ Served("updateProfile", u, n,
                   Reply(400, Fail("Username or email is already taken"),
                         cache, <<>>, FALSE, 1))
         /\ UNCHANGED dbVars
    ELSE LET updatedUser == [users[u] EXCEPT !.username = n]
         IN  /\ users' = [users EXCEPT ![u] = updatedUser]
             /\ Served("updateProfile", u, n, HUpdateProfile(updatedUser))
             /\ UNCHANGED <<properties, favorites, nextProp, nextFav>>

Passwords == {"hash", "hash2"}

\* changePassword that refreshes the cached profile instead of dropping it
HChangePasswordRefresh(userId) ==
  LET w == CacheUserProfile(cache, UserToJSON(users[userId]))
  IN  IF w.err THEN InternalError(w.c, <<>>, 1)
      ELSE Reply(200, [success |-> TRUE], w.c, <<>>, FALSE, 1)

HChangePassword(userId) ==
  LET w == InvalidateUserProfile(cache, userId)
  IN  IF w.err THEN InternalError(w.c, <<>>, 1)
      ELSE Reply(200, [success |-> TRUE], w.c, <<>>, FALSE, 1)

\* currentPassword is compared with the stored hash, newPassword is hashed
ChangePassword ==
  \E u \in Users, cur \in Passwords, new \in Passwords :
    IF cur # users[u].password
    THEN /\ Served("changePassword", u, <<cur, new>>,
                   Reply(400, Fail("Current password is incorrect"),
                         cache, <<>>, FALSE, 1))
         /\ UNCHANGED dbVars
    ELSE /\ users' = [users EXCEPT ![u].password = new]
         /\ Served("changePassword", u, <<cur, new>>, HChangePassword(u))
         /\ UNCHANGED <<properties, favorites, nextProp, nextFav>>

HLogin(user) ==
  LET w == CacheUserProfile(cache, UserToJSON(user))
  IN  IF w.err THEN InternalError(w.c, <<>>, 1)
      ELSE Reply(200, [success |-> TRUE, user |-> UserToJSON(user)],
                 w.c, <<>>, FALSE, 1)

Login ==
  \E u \in Users, pw \in Passwords :
    /\ Served("login", u, pw,
              IF pw # users[u].password
              THEN Reply(401, Fail("Invalid credentials"), cache, <<>>, FALSE, 1)
              ELSE HLogin(users[u]))
    /\ UNCHANGED dbVars

NextAuth ==
  \/ Connect \/ TransportDown \/ TransportUp
  \/ GetProfile \/ UpdateProfile \/ ChangePassword \/ Login

SpecAuth == InitDeep /\ [][NextAuth]_vars

\* --------------------------------------------------------- specification
Next ==
  \/ Connect \/ TransportDown \/ TransportUp \/ Disconnect
  \/ GetPropertyById \/ GetProperties \/ GetUserProperties
  \/ CreateProperty \/ UpdateProperty \/ DeleteProperty
  \/ AddToFavorites \/ RemoveFromFavorites \/ UpdateFavorite
  \/ CheckFavoriteStatus \/ GetUserFavorites
  \/ GetProfile \/ UpdateProfile \/ ChangePassword \/ Login

Spec == Init /\ [][Next]_vars

\* the handlers that write property:<id> and user:profile:<id> entries
NextShape ==
  \/ Connect
  \/ GetPropertyById \/ GetProperties \/ GetUserProperties
  \/ CreateProperty \/ UpdateProperty
  \/ GetProfile \/ UpdateProfile \/ ChangePassword \/ Login

SpecShape == InitDeep /\ [][NextShape]_vars

\* ------------------------------------------------ cache management routes
\* The routes run behind authMiddleware; requests are those of a signed-in
\* user, as for the controllers above.
\* client.info(section) / client.flushdb() / client.ping(): rejected while
\* the transport is not ready
ClientInfo(c) ==
  IF status # "ready" THEN Outcome(c, TRUE, Null)
  ELSE Outcome(c, FALSE, [keys |-> Cardinality(DOMAIN c)])

ClientFlushdb(c) ==
  IF status # "ready" THEN Outcome(c, TRUE, Null)
  ELSE Outcome(EmptyCache, FALSE, Null)

ClientPing(c) ==
  IF status # "ready" THEN Outcome(c, TRUE, Null)
  ELSE Outcome(c, FALSE, "PONG")

GetCacheStats(c) ==
  IF ~client THEN Outcome(c, FALSE, Null)
  ELSE LET info == ClientInfo(c)
       IN  IF info.err THEN Outcome(c, FALSE, Null)     \* catch: logged
           ELSE Outcome(c, FALSE, [memory |-> "memory", keyspace |-> info.val,
                                   connected |-> Available])

ClearAllCache(c) ==
  IF ~client THEN Outcome(c, FALSE, Null)
  ELSE LET r == ClientFlushdb(c)
       IN  IF r.err THEN Outcome(c, FALSE, Null)        \* catch: logged
           ELSE Outcome(r.c, FALSE, Null)

\* a reply of a management route
AdminReply(st, body, c) == Reply(st, body, c, <<>>, FALSE, 0)

Cleared(msg) == [success |-> TRUE, message |-> msg]

\* GET /stats
HStats ==
  LET stats == GetCacheStats(cache)
  IN  IF stats.err
        THEN AdminReply(500, Fail("Failed to retrieve cache statistics"), cache)
      ELSE IF ~Truthy(stats.val)
        THEN AdminReply(503, Fail("Cache service unavailable"), cache)
      ELSE AdminReply(200, [success |-> TRUE,
                            message |-> "Cache statistics retrieved",
                            stats |-> stats.val], cache)

\* DELETE /clear
HClear ==
  LET r == ClearAllCache(cache)
  IN  IF r.err THEN AdminReply(500, Fail("Failed to clear cache"), r.c)
      ELSE AdminReply(200, Cleared("All cache cleared successfully"), r.c)

\* DELETE /user/:userId
HClearUser(userId) ==
  LET r == Then(Then(InvalidateUserProfile(cache, userId),
                     LAMBDA c1 : InvalidateUserProperties(c1, userId)),
                LAMBDA c2 : InvalidateFavorites(c2, userId))
  IN  IF r.err THEN AdminReply(500, Fail("Failed to clear user cache"), r.c)
      ELSE AdminReply(200, Cleared("Cache cleared for user"), r.c)

\* DELETE /property/:propertyId
HClearProperty(propertyId) ==
  LET r == InvalidateProperty(cache, propertyId)
  IN  IF r.err THEN AdminReply(500, Fail("Failed to clear property cache"), r.c)
      ELSE AdminReply(200, Cleared("Cache cleared for property"), r.c)

\* DELETE /search
HClearSearch ==
  LET r == InvalidatePropertySearches(cache)
  IN  IF r.err THEN AdminReply(500, Fail("Failed to clear search cache"), r.c)
      ELSE AdminReply(200, Cleared("Search cache cleared successfully"), r.c)

\* GET /health
HHealth ==
  IF ~Available
    THEN AdminReply(503, Fail("Cache service is not available"), cache)
  ELSE LET r == IF client THEN ClientPing(cache) ELSE Outcome(cache, FALSE, Null)
       IN  IF r.err
             THEN AdminReply(503, [success |-> FALSE,
                                   message |-> "Cache service health check failed",
                                   connected |-> FALSE], cache)
           ELSE AdminReply(200, [success |-> TRUE,
                                 message |-> "Cache service is healthy",
                                 connected |-> TRUE], cache)

AdminRoutes == {"stats", "clear", "clearUser", "clearProperty", "clearSearch", "health"}

\* one request to a management route
Admin ==
  \E user \in Users, route \in AdminRoutes, userId \in Users, i \in 1..MaxProps :
    /\ route # "clearUser" => userId = user
    /\ route # "clearProperty" => i = 1
    /\ Served(route, user,
              CASE route = "clearUser" -> userId
                [] route = "clearProperty" -> PropOid[i]
                [] OTHER -> Null,
              CASE route = "stats" -> HStats
                [] route = "clear" -> HClear
                [] route = "clearUser" -> HClearUser(userId)
                [] route = "clearProperty" -> HClearProperty(PropOid[i])
                [] route = "clearSearch" -> HClearSearch
                [] OTHER -> HHealth)
    /\ UNCHANGED dbVars

NextAdmin ==
  \/ Connect \/ TransportDown \/ TransportUp
  \/ SvcCacheProperty \/ SvcCacheUserProfile \/ SvcCachePropertySearch
  \/ SvcCacheUserProperties \/ SvcCacheFavoriteStatus
  \/ Admin

SpecAdmin == InitSvc /\ [][NextAdmin]_vars

\* ------------------------------------------------- undecodable entries
\* The keyspace belongs to a Redis server that other clients write as well.
\* Texts JSON.parse rejects: a truncated document, bytes of another encoding
Garbled == {[raw |-> "truncated"], [raw |-> "binary"]}

\* SET key text by another client of the server: no expiry
ForeignSet ==
  \E key \in {KEYS_PROPERTY(i) : i \in PropIds} \cup {KEYS_USER_PROFILE("u1")},
     text \in Garbled :
    /\ phase = "serving"
    /\ budget > 0
    /\ budget' = budget - 1
    /\ cache' = [k \in DOMAIN cache \cup {key} |->
                   IF k = key THEN [val |-> text, ttl |-> -1, exp |-> MaxTime + 1]
                   ELSE cache[k]]
    /\ UNCHANGED <<redisVars, dbVars, last, hist, inflight>>

NextDecode ==
  \/ Connect \/ TransportDown \/ TransportUp
  \/ ForeignSet
  \/ SvcGetCachedProperty \/ SvcGetCachedUserProfile
  \/ GetPropertyById \/ GetProfile

SpecDecode == InitSvc /\ [][NextDecode]_vars

\* ------------------------------------------------------- expiry by Redis
\* the entries Redis holds a time to live for (SETEX), and the earliest expiry
Expiring == {k \in DOMAIN cache : cache[k].ttl # -1}

\* time passes up to the earliest expiry: Redis drops the keys due by then
Expire ==
  /\ phase = "serving"
  /\ Expiring # {}
  /\ \E k \in Expiring :
       /\ \A j \in Expiring : cache[k].exp <= cache[j].exp
       /\ clock' = cache[k].exp
       /\ cache' = [j \in {x \in DOMAIN cache :
                             cache[x].ttl = -1 \/ cache[x].exp > cache[k].exp}
                      |-> cache[j]]
  /\ UNCHANGED <<phase, client, status, dbVars, budget, last, hist, inflight>>

NextStale ==
  \/ Connect \/ TransportDown \/ TransportUp
  \/ Expire
  \/ GetPropertyById \/ UpdateProperty \/ DeleteProperty
  \/ GetProfile

\* Redis expires every key that has a time to live
SpecStale == InitDeep /\ [][NextStale]_vars /\ WF_vars(Expire)

\* ------------------------------------------- requests served concurrently
\* A request is served one await at a time; between two awaits of one
\* request any step of another request may run.  pc is the list of awaits the
\* request still has to make, doc / keys are its local variables.
Slots == {"r1", "r2"}

NewRequest(op, user, arg, input, pc) ==
  [op |-> op, user |-> user, arg |-> arg, input |-> input, pc |-> pc,
   doc |-> NoDoc, keys |-> {}, status |-> 0, hit |-> FALSE, seq |-> 0]

\* deleteCachePattern(pattern): client.keys, then client.del
PatternSteps(prefix) == << <<"keys", prefix>>, <<"del">> >>

\* the awaits of each handler, in program order
Program(op, userId, propertyId) ==
  CASE op = "updateProperty" ->
         << <<"own">>, <<"update">>, <<"cacheProperty">> >>
         \o PatternSteps(PAT_SEARCH)
         \o PatternSteps(PatUserProperties(userId)) \o PatternSteps(PAT_SEARCH)
         \o << <<"reply", 200>> >>
    [] op = "deleteProperty" ->
         << <<"own">>, <<"delete">>, <<"delKey", KEYS_PROPERTY(propertyId)>> >>
         \o PatternSteps(PAT_SEARCH) \o PatternSteps(PAT_ALL_USER_PROPERTIES)
         \o PatternSteps(PatUserProperties(userId)) \o PatternSteps(PAT_SEARCH)
         \o << <<"reply", 200>> >>
    [] op = "getPropertyById" ->
         << <<"getCachedProperty">>, <<"find">>, <<"cacheProperty">>, <<"reply", 200>> >>
    [] op = "getProperties" ->
         << <<"getCachedPropertySearch">>, <<"findAll">> >>

\* request bodies of PUT / PATCH /:id
UpdateBodies ==
  {[price |-> pr] : pr \in Prices}
  \cup {[price |-> 2, createdBy |-> "u2", id |-> BizId[2]]}

\* updateProperty without the two deletes: the body is applied as sent
StripNothing(updateData) == updateData

\* delete updateData.createdBy; delete updateData.id
StripUpdate(updateData) ==
  [f \in DOMAIN updateData \ {"createdBy", "id"} |-> updateData[f]]

\* findByIdAndUpdate(id, updateData, { new: true }): the fields sent are set
ApplyUpdate(doc, updateData) ==
  [f \in DOMAIN doc |-> IF f \in DOMAIN updateData THEN updateData[f] ELSE doc[f]]

\* the request has answered
Done(r) == r.pc = <<>>

\* res.status(st).json(...): nothing of the handler runs after it
Fin(r, st) == [r EXCEPT !.pc = <<>>, !.status = st]

\* what one await of request r does to r, the keyspace and the properties
Moves(r2, c2, props2) == [r |-> r2, c |-> c2, props |-> props2]

\* rank of the next cacheProperty write that reaches the store
NextSeq ==
  LET used == {inflight[s].seq : s \in DOMAIN inflight}
  IN  (CHOOSE n \in used \cup {0} : \A m \in used : m <= n) + 1

Effect(r) ==
  LET h    == Head(r.pc)
      rest == Tail(r.pc)
      go   == [r EXCEPT !.pc = rest]
  IN  CASE h[1] = "own" ->
             LET own == Ownership(r.user, r.arg)
             IN  Moves(IF own # 200 THEN Fin(r, own) ELSE go, cache, properties)
        [] h[1] = "update" ->
             IF properties[r.arg] = NoDoc THEN Moves(Fin(r, 404), cache, properties)
             ELSE LET doc == ApplyUpdate(properties[r.arg], StripUpdate(r.input))
                  IN  Moves([go EXCEPT !.doc = doc], cache,
                            [properties EXCEPT ![r.arg] = doc])
        [] h[1] = "delete" ->
             IF properties[r.arg] = NoDoc THEN Moves(Fin(r, 404), cache, properties)
             ELSE Moves([go EXCEPT !.doc = properties[r.arg]], cache,
                        [properties EXCEPT ![r.arg] = NoDoc])
        [] h[1] = "find" ->
             IF properties[r.arg] = NoDoc THEN Moves(Fin(r, 404), cache, properties)
             ELSE Moves([go EXCEPT !.doc = properties[r.arg]], cache, properties)
        [] h[1] = "getCachedProperty" ->
             LET g == GetCachedProperty(cache, r.arg)
             IN  IF g.err THEN Moves(Fin(r, 500), cache, properties)
                 ELSE IF Truthy(g.val)
                   THEN Moves([Fin(r, 200) EXCEPT !.hit = TRUE, !.doc = g.val],
                              cache, properties)
                 ELSE Moves(go, cache, properties)
        [] h[1] = "cacheProperty" ->
             LET w == CacheProperty(cache, r.doc)
             IN  IF w.err THEN Moves(Fin(r, 500), w.c, properties)
                 ELSE Moves([go EXCEPT !.seq = IF Available THEN NextSeq ELSE @],
                            w.c, properties)
        [] h[1] = "cacheDoc" ->
             LET w == CacheProperty(cache, h[2])
             IN  IF w.err THEN Moves(Fin(r, 500), w.c, properties)
                 ELSE Moves(go, w.c, properties)
        [] h[1] = "delKey" ->
             LET w == DeleteCache(cache, h[2])
             IN  IF w.err THEN Moves(Fin(r, 500), w.c, properties)
                 ELSE Moves(go, w.c, properties)
        [] h[1] = "keys" ->
             \* no client, a rejected command or no key found: del is not reached
             LET ks == ClientKeys(cache, h[2])
             IN  IF ~client \/ ks.err \/ ks.val = {}
                   THEN Moves([r EXCEPT !.pc = Tail(rest)], cache, properties)
                 ELSE Moves([go EXCEPT !.keys = ks.val], cache, properties)
        [] h[1] = "del" ->
             LET w == ClientDel(cache, r.keys)
             IN  Moves(go, IF w.err THEN cache ELSE w.c, properties)
        [] h[1] = "getCachedPropertySearch" ->
             LET g == GetCachedPropertySearch(cache, r.input)
             IN  IF g.err THEN Moves(Fin(r, 500), cache, properties)
                 ELSE IF Truthy(g.val)
                   THEN Moves([Fin(r, 200) EXCEPT !.hit = TRUE, !.doc = g.val],
                              cache, properties)
                 ELSE Moves(go, cache, properties)
        [] h[1] = "findAll" ->
             LET ids  == {i \in Existing : MatchesQuery(properties[i], r.input)}
                 docs == PageOf(NewestFirst(ids, MaxProps), DefaultPage, DefaultLimit)
                 resp == PropertiesResponse(docs, Cardinality(ids),
                                            DefaultPage, DefaultLimit)
             IN  Moves([r EXCEPT !.doc = resp,
                                 !.pc = << <<"cachePropertySearch">> >>
                                        \o [n \in 1..Len(docs) |-> <<"cacheDoc", docs[n]>>]
                                        \o << <<"reply", 200>> >>],
                       cache, properties)
        [] h[1] = "cachePropertySearch" ->
             LET w == CachePropertySearch(cache, r.input, r.doc)
             IN  IF w.err THEN Moves(Fin(r, 500), w.c, properties)
                 ELSE Moves(go, w.c, properties)
        [] h[1] = "reply" -> Moves(Fin(r, h[2]), cache, properties)

\* a request for one of the operations ops arrives: the slots are taken in order
BeginOf(ops) ==
  \E s \in Slots, op \in ops, u \in Users, i \in PropIds, body \in UpdateBodies, q \in Queries :
    /\ phase = "serving"
    /\ s \notin DOMAIN inflight
    /\ s = "r2" => "r1" \in DOMAIN inflight
    /\ op \in {"getPropertyById", "getProperties"} => u = "u1"
    /\ op = "getProperties" => i = PropOid[1]
    /\ inflight' = [t \in DOMAIN inflight \cup {s} |->
                      IF t # s THEN inflight[t]
                      ELSE NewRequest(op, u, i,
                                      CASE op = "updateProperty" -> body
                                        [] op = "getProperties" -> q
                                        [] OTHER -> Null,
                                      Program(op, u, i))]
    /\ op # "updateProperty" => body = [price |-> 1]
    /\ op # "getProperties" => q = <<>>
    /\ UNCHANGED <<redisVars, cache, dbVars, budget, last, hist>>

Begin ==
  BeginOf({"updateProperty", "deleteProperty", "getPropertyById", "getProperties"})

\* a request in flight makes its next await
Step ==
  \E s \in DOMAIN inflight :
    /\ ~Done(inflight[s])
    /\ LET e == Effect(inflight[s])
       IN  /\ inflight' = [inflight EXCEPT ![s] = e.r]
           /\ cache' = e.c
           /\ properties' = e.props
    /\ UNCHANGED <<redisVars, users, favorites, nextProp, nextFav, budget, last, hist>>

NextRace == Connect \/ Begin \/ Step

SpecRace == Init /\ [][NextRace]_vars

\* the same, with requests that are served without another one in between
NextRaceWarm ==
  \/ Connect \/ Step
  \/ BeginOf({"deleteProperty", "getProperties"})
  \/ GetProperties

SpecRaceWarm == Init /\ [][NextRaceWarm]_vars

\* ---- the route-response cache middleware
\* what the downstream handler hands to res.json, and with which status
Downstream ==
  {[status |-> 200, body |-> [success |-> TRUE, message |-> "one"]],
   [status |-> 201, body |-> [success |-> TRUE, message |-> "two"]],
   [status |-> 404, body |-> Fail("not found")],
   [status |-> 500, body |-> Fail("Internal server error")]}

\* when the connection is lost during the request: not at all, while the GET
\* is awaited, or before the wrapped res.json issues its SETEX
Losses == {"no", "get", "setex"}

\* a wrapped res.json that stores whatever the handler sends
CacheableAny(st) == TRUE

\* res.statusCode >= 200 && res.statusCode < 300
Cacheable(st) == st >= 200 /\ st < 300

\* cacheMiddleware(options)(req, res, next) with the downstream handler
\* answering d: the response sent, the keyspace and the transport status
\* after it, whether the cache was asked and whether next() was called
CacheMiddleware(key, ttl, skip, d, lost) ==
  LET pass == [status |-> d.status, body |-> d.body, c |-> cache, hit |-> FALSE,
               next |-> TRUE, read |-> FALSE, st |-> status]
  IN  IF skip THEN pass
      ELSE IF ~Available THEN pass
      ELSE IF lost = "get"                        \* catch: next()
        THEN [pass EXCEPT !.read = TRUE, !.st = "reconnecting"]
      ELSE LET g == ClientGet(cache, key)
           IN  IF g.val # Null
                 THEN IF Parses(g.val)
                        THEN [status |-> 200, body |-> Parse(g.val), c |-> cache,
                              hit |-> TRUE, next |-> FALSE, read |-> TRUE,
                              st |-> status]
                      ELSE [pass EXCEPT !.read = TRUE]   \* catch: next()
               ELSE IF ~Cacheable(d.status) THEN [pass EXCEPT !.read = TRUE]
               ELSE IF lost = "setex"             \* .catch: logged
                 THEN [pass EXCEPT !.read = TRUE, !.st = "reconnecting"]
               ELSE [pass EXCEPT !.read = TRUE,
                                 !.c = ClientSetex(cache, key, ttl,
                                                   Stringify(d.body)).c]

\* one request through a route that mounts the middleware
Through(name, arg, key, skip, lost, r) ==
  /\ phase = "serving"
  /\ budget > 0
  /\ budget' = budget - 1
  /\ cache' = r.c
  /\ status' = r.st
  /\ last' = [op |-> name, arg |-> arg, key |-> key, skip |-> skip, lost |-> lost,
              at |-> budget, pre |-> cache, avail |-> Available,
              status |-> r.status, body |-> ToJSON(r.body), hit |-> r.hit,
              next |-> r.next, read |-> r.read]
  /\ UNCHANGED <<phase, client, clock, dbVars, hist, inflight>>

\* propertyDetailCache: key `property:${req.params.id}`, 900 s, never skipped
PropertyDetailCache ==
  \E i \in PropIds, d \in Downstream, lost \in Losses :
    Through("propertyDetailCache", i, KEYS_PROPERTY(i), FALSE, lost,
            CacheMiddleware(KEYS_PROPERTY(i), 900, FALSE, d, lost))

\* publicPropertyCache: key `public:properties:${page}:${limit}`, 600 s,
\* skipped when the query has parameters other than page and limit
PublicPropertyCache ==
  \E pl \in PageLimits, hasFilters \in BOOLEAN, d \in Downstream, lost \in Losses :
    LET key == <<"public", "properties", NumStr(pl[1]), NumStr(pl[2])>>
    IN  Through("publicPropertyCache", pl, key, hasFilters, lost,
                CacheMiddleware(key, 600, hasFilters, d, lost))

NextRoute ==
  \/ Connect \/ TransportDown \/ TransportUp \/ ForeignSet
  \/ PropertyDetailCache \/ PublicPropertyCache

SpecRoute == Init /\ [][NextRoute]_vars

\* ---- addToFavorites served await by await
\* favorite.save() on a collection without the unique (userId, propertyId) index
SaveFavoriteNoIndex(favs, favorite) == [ok |-> TRUE, favs |-> favs \cup {favorite}]

\* favorite.save(): the unique index on (userId, propertyId) rejects a second
\* favorite of the pair with error code 11000
SaveFavorite(favs, favorite) ==
  IF \E f \in favs : f.userId = favorite.userId /\ f.propertyId = favorite.propertyId
    THEN [ok |-> FALSE, favs |-> favs]
  ELSE [ok |-> TRUE, favs |-> favs \cup {favorite}]

\* the awaits of addToFavorites in program order (the populate query after
\* save reads only)
AddSteps(userId) ==
  << <<"findProperty">>, <<"getCachedFavoriteStatus">>, <<"findOne">>, <<"save">>,
     <<"cacheFavoriteStatus">> >>
  \o PatternSteps(PatUserFavorites(userId)) \o PatternSteps(PatFavoriteStatus(userId))
  \o << <<"reply", 201>> >>

\* what one await of addToFavorites does to the request, the keyspace and
\* the favorites; seq becomes 1 when the request's status write reached the
\* store
AddEffect(r) ==
  LET h  == Head(r.pc)
      go == [r EXCEPT !.pc = Tail(r.pc)]
      to(r2, c2, favs2, nf2) == [r |-> r2, c |-> c2, favs |-> favs2, nf |-> nf2]
  IN  CASE h[1] = "findProperty" ->
             to(IF properties[r.arg] = NoDoc THEN Fin(r, 404) ELSE go,
                cache, favorites, nextFav)
        [] h[1] = "getCachedFavoriteStatus" ->
             LET g == GetCachedFavoriteStatus(cache, r.user, r.arg)
             IN  to(IF g.err THEN Fin(r, 500)
                    ELSE IF Truthy(g.val) /\ g.val.isFavorited
                      THEN [Fin(r, 400) EXCEPT !.hit = TRUE]
                    ELSE go,
                    cache, favorites, nextFav)
        [] h[1] = "findOne" ->
             LET existing == FindFavorite(r.user, r.arg)
             IN  to(IF existing = NoDoc THEN go
                    ELSE [r EXCEPT !.doc = existing,
                                   !.pc = << <<"cacheFavoriteStatus">>, <<"reply", 400>> >>],
                    cache, favorites, nextFav)
        [] h[1] = "save" ->
             LET favorite == [_id |-> FavOid[nextFav], userId |-> r.user,
                              propertyId |-> r.arg, notes |-> ""]
                 saved == SaveFavorite(favorites, favorite)
             IN  IF ~saved.ok THEN to(Fin(r, 400), cache, favorites, nextFav)
                 ELSE to([go EXCEPT !.doc = favorite], cache, saved.favs, nextFav + 1)
        [] h[1] = "cacheFavoriteStatus" ->
             LET w == CacheFavoriteStatus(cache, r.user, r.arg,
                                          [isFavorited |-> TRUE, favoriteId |-> r.doc._id])
             IN  to(IF w.err THEN Fin(r, 500)
                    ELSE [go EXCEPT !.seq = IF Available THEN 1 ELSE @],
                    w.c, favorites, nextFav)
        [] OTHER ->
             LET e == Effect(r) IN to(e.r, e.c, favorites, nextFav)

\* a POST /api/favorites arrives; the second request comes from the user of
\* the first (another tab, a double click): the slots are taken in order
BeginAdd ==
  \E s \in Slots, u \in Users, i \in PropIds :
    /\ phase = "serving"
    /\ s \notin DOMAIN inflight
    /\ s = "r2" => ("r1" \in DOMAIN inflight /\ inflight["r1"].user = u)
    /\ inflight' = [t \in DOMAIN inflight \cup {s} |->
                      IF t # s THEN inflight[t]
                      ELSE NewRequest("addToFavorites", u, i, Null, AddSteps(u))]
    /\ UNCHANGED <<redisVars, cache, dbVars, budget, last, hist>>

\* a request in flight makes its next await
StepAdd ==
  \E s \in DOMAIN inflight :
    /\ ~Done(inflight[s])
    /\ Head(inflight[s].pc)[1] = "save" => nextFav <= MaxFavs
    /\ LET e == AddEffect(inflight[s])
       IN  /\ inflight' = [inflight EXCEPT ![s] = e.r]
           /\ cache' = e.c
           /\ favorites' = e.favs
           /\ nextFav' = e.nf
    /\ UNCHANGED <<redisVars, properties, users, nextProp, budget, last, hist>>

NextPair ==
  \/ Connect \/ TransportDown \/ TransportUp
  \/ CheckFavoriteStatus
  \/ BeginAdd \/ StepAdd

SpecPair == Init /\ [][NextPair]_vars

\* ---- an invalidation served await by await while the transport comes and goes
Invalidations == {"invalidateProperty", "invalidateUserProperties",
                  "invalidateFavorites"}

\* the awaits of each invalidate method, in program order
InvalidateSteps(op, userId, propertyId) ==
  CASE op = "invalidateProperty" ->
         << <<"delKey", KEYS_PROPERTY(propertyId)>> >>
         \o PatternSteps(PAT_SEARCH) \o PatternSteps(PAT_ALL_USER_PROPERTIES)
    [] op = "invalidateUserProperties" ->
         PatternSteps(PatUserProperties(userId)) \o PatternSteps(PAT_SEARCH)
    [] op = "invalidateFavorites" ->
         PatternSteps(PatUserFavorites(userId))
         \o PatternSteps(PatFavoriteStatus(userId))

\* a caller awaits one of the invalidate methods, its other calls answered
BeginInvalidate ==
  \E op \in Invalidations, u \in Users, i \in PropIds :
    /\ phase = "serving"
    /\ budget = 0
    /\ inflight = <<>>
    /\ op = "invalidateProperty" => u = "u1"
    /\ op # "invalidateProperty" => i = PropOid[1]
    /\ inflight' = [t \in {"r1"} |-> NewRequest(op, u, i, Null, InvalidateSteps(op, u, i))]
    /\ UNCHANGED <<redisVars, cache, dbVars, budget, last, hist>>

NextPartial ==
  \/ Connect \/ TransportDown \/ TransportUp
  \/ SvcCacheProperty \/ SvcCachePropertySearch \/ SvcCacheUserProperties
  \/ SvcCacheFavoriteStatus \/ SvcCacheUserFavorites
  \/ BeginInvalidate \/ Step

SpecPartial == Init /\ [][NextPartial]_vars

\* ---- keys and patterns as the texts Redis receives
\* the characters of the strings that occur in keys
Chars(str) ==
  CASE str = "property" -> <<"p", "r", "o", "p", "e", "r", "t", "y">>
    [] str = "properties" -> <<"p", "r", "o", "p", "e", "r", "t", "i", "e", "s">>
    [] str = "user" -> <<"u", "s", "e", "r">>
    [] str = "profile" -> <<"p", "r", "o", "f", "i", "l", "e">>
    [] str = "search" -> <<"s", "e", "a", "r", "c", "h">>
    [] str = "favorites" -> <<"f", "a", "v", "o", "r", "i", "t", "e", "s">>
    [] str = "favorite" -> <<"f", "a", "v", "o", "r", "i", "t", "e">>
    [] str = "status" -> <<"s", "t", "a", "t", "u", "s">>
    [] str = "u1" -> <<"u", "1">>
    [] str = "u10" -> <<"u", "1", "0">>
    [] str = "a1" -> <<"a", "1">>
    [] str = "1" -> <<"1">>
    [] str = "10" -> <<"1", "0">>
    [] str = "{}" -> <<"{", "}">>
    [] str = "{\"minPrice\":\"2\"}" ->
         <<"{", "\"", "m", "i", "n", "P", "r", "i", "c", "e", "\"", ":",
           "\"", "2", "\"", "}">>
    [] OTHER -> <<>>

\* template literal `a:b:c`: the segments joined by ':'
RECURSIVE KeyText(_)
KeyText(key) ==
  IF key = <<>> THEN <<>>
  ELSE IF Len(key) = 1 THEN Chars(key[1])
  ELSE Chars(key[1]) \o <<":">> \o KeyText(Tail(key))

\* a scoped pattern written without the ':' before the '*'
PatternTextNoColon(prefix) == KeyText(prefix) \o <<"*">>

\* template literal `prefix:*`
PatternText(prefix) == KeyText(prefix) \o <<":", "*">>

\* Redis glob matching of a key against a pattern in which '*' is the only
\* special character: '*' stands for any run of characters
RECURSIVE RedisGlob(_, _)
RedisGlob(pattern, text) ==
  IF pattern = <<>> THEN text = <<>>
  ELSE IF Head(pattern) = "*"
    THEN \/ RedisGlob(Tail(pattern), text)
         \/ text # <<>> /\ RedisGlob(pattern, Tail(text))
  ELSE /\ text # <<>>
       /\ Head(text) = Head(pattern)
       /\ RedisGlob(Tail(pattern), Tail(text))

\* identifiers without ':' and glob characters, one a prefix of another
GlobIds == {"u1", "u10", "a1"}
QueryTexts == {"{}", "{\"minPrice\":\"2\"}"}
Families == {"property", "user:profile", "user:properties", "search:properties",
             "user:favorites", "favorite:status"}
ScopedFamilies == {"user:properties", "user:favorites", "favorite:status"}

\* the key of a family for the given identifiers
FamilyKey(family, userId, otherId, page, limit, queryText) ==
  CASE family = "property" -> KEYS_PROPERTY(otherId)
    [] family = "user:profile" -> KEYS_USER_PROFILE(userId)
    [] family = "user:properties" -> KEYS_USER_PROPERTIES(userId, page, limit)
    [] family = "search:properties" -> KEYS_PROPERTY_SEARCH(queryText)
    [] family = "user:favorites" -> KEYS_USER_FAVORITES(userId, page, limit)
    [] family = "favorite:status" -> KEYS_FAVORITE_STATUS(userId, otherId)

\* the pattern the invalidate methods build for a user
FamilyPattern(family, userId) ==
  CASE family = "user:properties" -> PatternText(PatUserProperties(userId))
    [] family = "user:favorites" -> PatternText(PatUserFavorites(userId))
    [] family = "favorite:status" -> PatternText(PatFavoriteStatus(userId))

\* a key is built
BuildKey ==
  \E f \in Families, u \in GlobIds, o \in GlobIds, pl \in PageLimits, q \in QueryTexts :
    /\ budget > 0
    /\ budget' = budget - 1
    /\ f \in {"property", "search:properties"} => u = "u1"
    /\ f \notin {"property", "favorite:status"} => o = "a1"
    /\ f \notin {"user:properties", "user:favorites"} => pl = <<1, 10>>
    /\ f # "search:properties" => q = "{}"
    /\ hist' = Remember(hist, [op |-> "key", family |-> f,
                                user |-> IF f \in {"property", "search:properties"}
                                         THEN "" ELSE u,
                                text |-> KeyText(FamilyKey(f, u, o, pl[1], pl[2], q))])
    /\ UNCHANGED <<redisVars, cache, dbVars, last, inflight>>

\* KEYS is asked for a user's pattern with the key just built in the keyspace
MatchPattern ==
  \E f \in ScopedFamilies, v \in GlobIds :
    /\ budget > 0
    /\ budget' = budget - 1
    /\ hist # <<>>
    /\ last' = [op |-> "keys", family |-> f, user |-> v, key |-> hist[Len(hist)],
                 matched |-> RedisGlob(FamilyPattern(f, v), hist[Len(hist)].text)]
    /\ UNCHANGED <<redisVars, cache, dbVars, hist, inflight>>

NextGlob == BuildKey \/ MatchPattern

SpecGlob == InitSvc /\ [][NextGlob]_vars

\* ------------------------------------------------------------- properties
\* the keys of keyspace c that a glob matches
MatchingIn(c, prefix) == {k \in DOMAIN c : GlobMatch(prefix, k)}

\* the value a keyspace holds under a key, decoded
Held(c, key) == Parse(c[key].val)

\* ---- C1
\* C1: once updateProperty on P by its owner has completed with the store
\* available, property:P is absent or holds the freshly updated value, no
\* key matches search:properties:* and no key matches
\* user:properties:<owner>:*.
C1_UpdateCascade ==
  (last.op = "updateProperty" /\ last.status = 200 /\ last.avail) =>
    LET key == KEYS_PROPERTY(last.arg)
    IN  /\ key \in DOMAIN cache =>
             Held(cache, key) = [properties[last.arg] EXCEPT
                                   !.availableFrom = [str |-> @.date]]
        /\ Matching(PAT_SEARCH) = {}
        /\ Matching(PatUserProperties(last.user)) = {}

\* The update found P cached at another price, a cached search result set
\* containing P and page 1 of the owner's list, and left the fresh P cached.
C1_Witness ==
  /\ last.op = "updateProperty" /\ last.status = 200 /\ last.avail
  /\ LET key == KEYS_PROPERTY(last.arg)
     IN  /\ key \in DOMAIN last.pre
         /\ Held(last.pre, key).price # properties[last.arg].price
         /\ key \in DOMAIN cache
         /\ Held(cache, key).price = properties[last.arg].price
  /\ \E k \in MatchingIn(last.pre, PAT_SEARCH) :
       \E j \in DOMAIN Held(last.pre, k).properties :
         Held(last.pre, k).properties[j]._id = last.arg
  /\ KEYS_USER_PROPERTIES(last.user, DefaultPage, DefaultLimit) \in DOMAIN last.pre

\* ---- C2
\* C2: when addToFavorites(u, p) succeeded on a keyspace in which
\* favorite:status:u:p held {isFavorited:false} (left there by a
\* checkFavoriteStatus miss), the next checkFavoriteStatus(u, p) is a cache
\* hit that returns isFavorited = true with the id of the created favorite and
\* reads nothing from the durable store.
C2_ToggleHit ==
  [][(/\ last.op = "addToFavorites" /\ last.status = 201 /\ last.avail
      /\ last.key \in DOMAIN last.pre
      /\ Held(last.pre, last.key) = [isFavorited |-> FALSE]
      /\ budget' # budget
      /\ last'.op = "checkFavoriteStatus"
      /\ last'.user = last.user /\ last'.arg = last.arg
      /\ last'.avail)
     => /\ last'.hit
        /\ last'.dbReads = 0
        /\ last'.body.isFavorited
        /\ last'.body.favoriteId = last.body.favorite._id]_vars

\* ---- C3
ReadOps == {"getPropertyById", "getProfile", "getProperties",
            "getUserProperties", "getUserFavorites", "checkFavoriteStatus"}

\* the body a cached read answers with when its lookup returned v
HitBody(op, v) ==
  CASE op = "getPropertyById" -> [success |-> TRUE, property |-> v]
    [] op = "getProfile" -> [success |-> TRUE, user |-> v]
    [] op = "checkFavoriteStatus" ->
         [success |-> TRUE, isFavorited |-> v.isFavorited,
          favoriteId |-> IF "favoriteId" \in DOMAIN v THEN v.favoriteId ELSE NullId]
    [] OTHER -> v

\* C3: for each cached read (getPropertyById, getProfile, getProperties,
\* getUserProperties, getUserFavorites without search, checkFavoriteStatus):
\* when the lookup of the computed key finds the entry, the handler answers
\* with the cached value and makes no durable-store read; otherwise it reads
\* the durable store and, the fetch having succeeded and the store being
\* available, the entry under that same key holds what it answered.
C3_ReadThrough ==
  (last.op \in ReadOps /\ last.key # <<>>) =>
    IF last.avail /\ last.key \in DOMAIN last.pre
    THEN /\ last.hit
         /\ last.dbReads = 0
         /\ last.status = 200
         /\ last.body = HitBody(last.op, Held(last.pre, last.key))
    ELSE /\ ~last.hit
         /\ last.dbReads > 0
         /\ (last.status = 200 /\ last.avail) =>
              /\ last.key \in DOMAIN cache
              /\ last.key \notin DOMAIN last.pre
              /\ last.body = HitBody(last.op, Held(cache, last.key))

\* A getProfile answered from the entry an earlier miss had written.
C3_Witness ==
  /\ last.op = "getProfile" /\ last.avail
  /\ last.key \in DOMAIN last.pre
  /\ last.hit /\ last.dbReads = 0
  /\ last.body.user = Held(last.pre, last.key)

\* ---- C4
\* hist holds cacheProperty(p) immediately followed by getCachedProperty of
\* p's _id, the store available at both calls
WriteThenRead ==
  /\ Len(hist) = 2
  /\ hist[1].op = "cacheProperty" /\ hist[1].avail /\ hist[1].arg._id # ""
  /\ hist[2].op = "getCachedProperty" /\ hist[2].avail
  /\ hist[2].arg = hist[1].arg._id

InvalidateThenRead ==
  /\ Len(hist) = 2
  /\ hist[1].op = "invalidateProperty" /\ hist[1].avail
  /\ hist[2].op = "getCachedProperty" /\ hist[2].avail
  /\ hist[2].arg = hist[1].arg

\* C5: with the store available, getCachedProperty(id) after
\* invalidateProperty(id), with no write of that key in between, is a miss,
\* whatever cacheProperty had put there before.
C5_InvalidateThenMiss ==
  InvalidateThenRead => hist[2].val = Null

\* The invalidation found the entry that an earlier cacheProperty had written.
C5_Witness ==
  /\ InvalidateThenRead
  /\ hist[1].had
  /\ hist[1].changed
  /\ hist[2].val = Null

\* ---- C6
Getters == {"getCachedProperty", "getCachedUserProfile", "getCachedPropertySearch",
            "getCachedUserProperties", "getCachedFavoriteStatus",
            "getCachedUserFavorites"}

\* C6: a CacheService call made while the store is unavailable (no client, or
\* the client's commands failing) returns without raising, returns a miss
\* when it is a getCached* call, and changes no cache entry.
C6_MissOnUnavailable ==
  \A n \in DOMAIN hist :
    ~hist[n].avail =>
      /\ ~hist[n].err
      /\ ~hist[n].changed
      /\ hist[n].op \in Getters => hist[n].val = Null

\* The store went away with an entry in place: the read of it misses and the
\* write before it, made when the store answered, had stored it.
C6_Witness ==
  /\ Len(hist) = 2
  /\ hist[1].op = "cacheProperty" /\ hist[1].avail /\ hist[1].changed
  /\ hist[2].op = "getCachedProperty" /\ ~hist[2].avail
  /\ hist[2].arg = hist[1].arg._id
  /\ hist[2].had
  /\ hist[2].val = Null
  /\ client

\* ---- C7
\* status the uncached PropertyController answers with, from the durable
\* store alone (update and delete behind checkPropertyOwnership)
PlainPropertyStatus(op, userId, arg) ==
  CASE op = "getPropertyById" -> IF properties[arg] = NoDoc THEN 404 ELSE 200
    [] op = "createProperty" -> IF BizTaken(arg) THEN 400 ELSE 201
    [] op \in {"updateProperty", "deleteProperty"} -> Ownership(userId, arg)
    [] OTHER -> 200

\* status the uncached AuthController answers with
PlainAuthStatus(op, userId, arg) ==
  CASE op = "login" -> IF arg # users[userId].password THEN 401 ELSE 200
    [] OTHER -> 200

\* status that the durable-store statements of updateProfile and
\* changePassword decide
ProfileStoreStatus(op, userId, arg) ==
  CASE op = "updateProfile" ->
         IF \E v \in Users \ {userId} : users[v].username = arg THEN 400 ELSE 200
    [] OTHER -> IF arg[1] # users[userId].password THEN 400 ELSE 200

\* status that the durable-store statements of the favorite handlers decide
FavoriteStoreStatus(op, userId, arg) ==
  CASE op = "addToFavorites" ->
         IF properties[arg] = NoDoc THEN 404
         ELSE IF FindFavorite(userId, arg) # NoDoc THEN 400 ELSE 201
    [] op = "removeFromFavorites" ->
         IF FindFavorite(userId, arg) = NoDoc THEN 404 ELSE 200
    [] op = "updateFavorite" ->
         IF \E f \in favorites : f._id = arg /\ f.userId = userId THEN 200 ELSE 404
    [] OTHER -> 200

StoreStatus(op, userId, arg) ==
  IF op \in {"getPropertyById", "getProperties", "getUserProperties",
             "createProperty", "updateProperty", "deleteProperty"}
    THEN PlainPropertyStatus(op, userId, arg)
  ELSE IF op \in {"login", "getProfile"} THEN PlainAuthStatus(op, userId, arg)
  ELSE IF op \in {"updateProfile", "changePassword"}
    THEN ProfileStoreStatus(op, userId, arg)
  ELSE FavoriteStoreStatus(op, userId, arg)

\* what a request that answered st has done to the durable store
StoreEffect(op, userId, arg, st) ==
  IF st >= 400 \/ op \in ReadOps \cup {"login"} THEN UNCHANGED dbVars
  ELSE CASE op = "createProperty" ->
              /\ nextProp' = nextProp + 1
              /\ properties'[PropOid[nextProp]].id = arg
              /\ properties'[PropOid[nextProp]].createdBy = userId
         [] op = "updateProperty" ->
              /\ properties'[arg] # NoDoc
              /\ last'.body.property.price = properties'[arg].price
         [] op = "deleteProperty" -> properties'[arg] = NoDoc
         [] op = "addToFavorites" ->
              \E f \in favorites' \ favorites : f.userId = userId /\ f.propertyId = arg
         [] op = "removeFromFavorites" ->
              ~ \E f \in favorites' : f.userId = userId /\ f.propertyId = arg
         [] op = "updateFavorite" ->
              \E f \in favorites' : f._id = arg /\ f = last'.body.favorite
         [] op = "updateProfile" -> users'[userId].username = arg
         [] OTHER -> users'[userId].password = arg[2]

\* C7: a request served while the cache store is unavailable (no client, or
\* every adapter command failing) gets the HTTP status the durable store
\* alone decides, never a 500, has its effect on the durable store, is not
\* answered from the cache and changes no cache entry.
C7_CacheNeverFails ==
  [][(budget' # budget /\ ~last'.avail) =>
       /\ last'.status = StoreStatus(last'.op, last'.user, last'.arg)
       /\ last'.status # 500
       /\ StoreEffect(last'.op, last'.user, last'.arg, last'.status)
       /\ ~last'.hit
       /\ last'.dbReads > 0
       /\ cache' = cache]_vars

\* A read whose entry sits in the keyspace was served from the durable store
\* because the adapter's commands were failing.
C7_Witness ==
  /\ last.op \in ReadOps
  /\ ~last.avail /\ client
  /\ last.key \in DOMAIN last.pre
  /\ last.status = 200 /\ last.dbReads > 0

\* ---- C8
\* C8: once addToFavorites(u, p) has completed successfully with the store
\* available, favorite:status:u:p holds {isFavorited:true, favoriteId}; once
\* removeFromFavorites(u, p) has, it holds {isFavorited:false}.
C8_StatusWriteThrough ==
  /\ (last.op = "addToFavorites" /\ last.status = 201 /\ last.avail) =>
       LET key == KEYS_FAVORITE_STATUS(last.user, last.arg)
       IN  /\ key \in DOMAIN cache
           /\ Held(cache, key) = [isFavorited |-> TRUE,
                                  favoriteId |-> last.body.favorite._id]
  /\ (last.op = "removeFromFavorites" /\ last.status = 200 /\ last.avail) =>
       LET key == KEYS_FAVORITE_STATUS(last.user, last.arg)
       IN  /\ key \in DOMAIN cache
           /\ Held(cache, key) = [isFavorited |-> FALSE]

\* ---- C9
PAT_ALL_FAVORITE_STATUS == <<"favorite", "status">>

\* C9: once updateFavorite by u has completed successfully with the store
\* available, no list page of u is cached and every favorite:status:* entry,
\* of u and of every other user, is as it was before the request.
C9_UpdateKeepsStatus ==
  (last.op = "updateFavorite" /\ last.status = 200 /\ last.avail) =>
    /\ Matching(PatUserFavorites(last.user)) = {}
    /\ \A k \in MatchingIn(last.pre, PAT_ALL_FAVORITE_STATUS) :
         k \in DOMAIN cache /\ cache[k] = last.pre[k]

\* ---- C10
FavoriteWriteDone(l) ==
  /\ l.op \in {"addToFavorites", "removeFromFavorites", "updateFavorite"}
  /\ l.status \in {200, 201}
  /\ l.avail

\* C10: once a successful addToFavorites, removeFromFavorites or
\* updateFavorite by u has completed with the store available, no key
\* matching user:favorites:u:* is present, and a getUserFavorites of u that
\* comes next is not answered from the cache and reads the durable store.
C10_ListsInvalidated ==
  [][/\ FavoriteWriteDone(last') =>
          MatchingIn(cache', PatUserFavorites(last'.user)) = {}
     /\ (/\ FavoriteWriteDone(last)
         /\ budget' # budget
         /\ last'.op = "getUserFavorites"
         /\ last'.user = last.user)
        => ~last'.hit /\ last'.dbReads > 0]_vars

\* A successful addToFavorites found a cached list page of its user and left
\* none.
C10_Witness ==
  /\ FavoriteWriteDone(last)
  /\ last.op = "addToFavorites"
  /\ MatchingIn(last.pre, PatUserFavorites(last.user)) # {}
  /\ Matching(PatUserFavorites(last.user)) = {}

\* ---- C11
PasswordChanged(l, needStore) ==
  l.op = "changePassword" /\ l.status = 200 /\ (needStore => l.avail)

\* after a successful changePassword of u the profile key of u is absent, and
\* a getProfile of u that comes next reads the durable store and fills the key
PasswordInvalidates(needStore) ==
  /\ PasswordChanged(last', needStore) =>
       KEYS_USER_PROFILE(last'.user) \notin DOMAIN cache'
  /\ (/\ PasswordChanged(last, needStore)
      /\ budget' # budget
      /\ last'.op = "getProfile" /\ last'.user = last.user
      /\ needStore => last'.avail)
     => /\ ~last'.hit
        /\ last'.dbReads > 0
        /\ KEYS_USER_PROFILE(last.user) \in DOMAIN cache'
        /\ Held(cache', KEYS_USER_PROFILE(last.user)) = UserToJSON(users'[last.user])

ProfileUpdated(l, needStore) ==
  l.op = "updateProfile" /\ l.status = 200 /\ (needStore => l.avail)

\* after a successful updateProfile of u the profile key of u holds the
\* profile the durable store holds, and a getProfile of u that comes next
\* answers with it from the cache
ProfileOverwritten(needStore) ==
  /\ ProfileUpdated(last', needStore) =>
       /\ KEYS_USER_PROFILE(last'.user) \in DOMAIN cache'
       /\ Held(cache', KEYS_USER_PROFILE(last'.user)) = UserToJSON(users'[last'.user])
  /\ (/\ ProfileUpdated(last, needStore)
      /\ budget' # budget
      /\ last'.op = "getProfile" /\ last'.user = last.user
      /\ needStore => last'.avail)
     => /\ last'.hit
        /\ last'.dbReads = 0
        /\ last'.body.user = UserToJSON(users[last.user])

C13_CreateDeleteCascade ==
  (/\ last.op \in {"createProperty", "deleteProperty"}
   /\ last.status \in {200, 201}
   /\ last.avail) =>
    /\ Matching(PAT_SEARCH) = {}
    /\ Matching(PatUserProperties(last.user)) = {}
    /\ last.op = "deleteProperty" => KEYS_PROPERTY(last.arg) \notin DOMAIN cache
    /\ last.op = "createProperty" =>
         LET id == last.body.property._id
         IN  KEYS_PROPERTY(id) \in DOMAIN cache =>
               /\ Held(cache, KEYS_PROPERTY(id)).id = last.arg
               /\ Held(cache, KEYS_PROPERTY(id)) =
                    [properties[id] EXCEPT !.availableFrom = [str |-> @.date]]

\* A successful deleteProperty found the property, a search result set and a
\* page of its owner's list cached, and left none of them.
C13_Witness ==
  /\ last.op = "deleteProperty" /\ last.status = 200 /\ last.avail
  /\ KEYS_PROPERTY(last.arg) \in DOMAIN last.pre
  /\ MatchingIn(last.pre, PAT_SEARCH) # {}
  /\ MatchingIn(last.pre, PatUserProperties(last.user)) # {}
  /\ KEYS_PROPERTY(last.arg) \notin DOMAIN cache

\* ---- C14
\* the TTL, in seconds, of the family a key belongs to
FamilyTTL(key) ==
  CASE key[1] = "property" -> 900
    [] key[1] = "search" -> 300
    [] key[1] = "favorite" -> 600
    [] key[1] = "user" /\ key[2] = "profile" -> 1800
    [] key[1] = "user" /\ key[2] = "properties" -> 600
    [] key[1] = "user" /\ key[2] = "favorites" -> 600

\* C14: every entry in the keyspace carries the TTL of its family: property
\* 900, user profile 1800, search results 300, user-properties list 600,
\* favorites list 600, favorite-status 600.
C14_FixedTTL ==
  \A k \in DOMAIN cache : cache[k].ttl = FamilyTTL(k)

\* Entries of three families with three different TTLs sit side by side.
C14_Witness ==
  /\ KEYS_PROPERTY(PropOid[1]) \in DOMAIN cache
  /\ KEYS_USER_PROFILE("u1") \in DOMAIN cache
  /\ MatchingIn(cache, PAT_SEARCH) # {}
  /\ cache[KEYS_PROPERTY(PropOid[1])].ttl = 900
  /\ cache[KEYS_USER_PROFILE("u1")].ttl = 1800

\* ---- C15
\* hist holds a cache<Type> call immediately followed by the getCached<Type>
\* call for the same key, the store available at both
WrittenThenRead ==
  /\ Len(hist) = 2
  /\ hist[1].op \in {"cacheProperty", "cachePropertySearch", "cacheFavoriteStatus"}
  /\ hist[2].op \in Getters
  /\ hist[2].keys = hist[1].keys
  /\ hist[1].avail /\ hist[2].avail

\* C15: an entry written with TTL t and neither deleted nor overwritten is
\* returned by getCached* when less than t seconds have passed since the write
\* and is a miss once t seconds have passed.
C15_ExpiryBoundary ==
  WrittenThenRead =>
    LET t == CASE hist[1].op = "cacheProperty" -> 900
               [] hist[1].op = "cachePropertySearch" -> 300
               [] OTHER -> 600
    IN  (hist[2].val # Null) <=> (hist[2].at - hist[1].at < t)

\* A search result set read exactly 300 seconds after it was written: a miss.
C15_Witness ==
  /\ WrittenThenRead
  /\ hist[1].op = "cachePropertySearch"
  /\ hist[2].at - hist[1].at = 300
  /\ hist[2].val = Null

\* ---- C16
\* the (name, value) pairs of a query object
Pairs(query) == {query[i] : i \in DOMAIN query}

\* hist holds cachePropertySearch(Q1, r) immediately followed by
\* getCachedPropertySearch(Q2), the store available at both
SearchWrittenThenRead ==
  /\ Len(hist) = 2
  /\ hist[1].op = "cachePropertySearch" /\ hist[1].avail
  /\ hist[2].op = "getCachedPropertySearch" /\ hist[2].avail

\* C16: for query objects Q1 and Q2 with the same (name, value) pairs,
\* whatever the order their names are enumerated in, the search keys are
\* equal, and getCachedPropertySearch(Q2) right after
\* cachePropertySearch(Q1, r) is a hit returning the stored r.
C16_KeyCommutative ==
  \A q1, q2 \in OrderedQueries :
    Pairs(q1) = Pairs(q2) =>
      /\ GenerateSearchKey(q1) = GenerateSearchKey(q2)
      /\ (SearchWrittenThenRead /\ hist[1].arg = q1 /\ hist[2].arg = q2) =>
           /\ hist[2].val # Null
           /\ hist[2].val = ToJSON(ResultFor(q1))

\* A result set cached under (city, minPrice) was read back under
\* (minPrice, city).
C16_Witness ==
  /\ SearchWrittenThenRead
  /\ Len(hist[1].arg) = 2
  /\ hist[1].arg # hist[2].arg
  /\ Pairs(hist[1].arg) = Pairs(hist[2].arg)
  /\ hist[2].val # Null
  /\ hist[2].val.total = MatchCount(hist[1].arg)

\* ---- C17
\* C17: query objects that differ in at least one (name, value) pair have
\* different search keys, and a getCachedPropertySearch that hits returns a
\* result set that was cached for its own pairs.
C17_KeyDistinct ==
  /\ \A q1, q2 \in OrderedQueries :
       Pairs(q1) # Pairs(q2) => GenerateSearchKey(q1) # GenerateSearchKey(q2)
  /\ \A n \in DOMAIN hist :
       (hist[n].op = "getCachedPropertySearch" /\ hist[n].val # Null) =>
         hist[n].val.total = MatchCount(hist[n].arg)

\* With a result set for minPrice=1 cached, the read for minPrice=2 that
\* follows is a miss.
C17_Witness ==
  /\ SearchWrittenThenRead
  /\ Pairs(hist[1].arg) # Pairs(hist[2].arg)
  /\ Len(hist[1].arg) = Len(hist[2].arg)
  /\ hist[1].changed
  /\ hist[2].val = Null

\* ---- C18
\* the most recent direct call
Latest(h) == h[Len(h)]

\* calls that delete single keys of other families or invalidate the scope of
\* another user than u
ForeignDelete(e, u) ==
  \/ e.op \in {"invalidateUserProfile", "invalidateSpecificFavorite"}
  \/ e.op \in {"invalidateUserProperties", "invalidateFavorites"} /\ e.arg # u

\* C18: the pages of u's property list are separate entries: a
\* getCachedUserProperties(u, page, limit) hits exactly when its own entry is
\* present and returns the result cached for that page and limit;
\* invalidateUserProperties(u) leaves no page of u; a delete of a single key
\* of another family and a user-scoped invalidation for another user leave
\* every page of u as it was.
C18_PageIsolation ==
  [][(budget' # budget /\ Latest(hist').avail) =>
       LET e == Latest(hist')
       IN  /\ e.op = "getCachedUserProperties" =>
                /\ (e.val # Null) <=> e.had
                /\ e.val # Null =>
                     /\ e.val.page = e.arg[2][1]
                     /\ e.val.limit = e.arg[2][2]
           /\ e.op = "invalidateUserProperties" =>
                MatchingIn(cache', PatUserProperties(e.arg)) = {}
           /\ ForeignDelete(e, "u1") =>
                \A k \in MatchingIn(cache, PatUserProperties("u1")) :
                  k \in DOMAIN cache' /\ cache'[k] = cache[k]]_vars

\* Pages 1 and 2 of u1 are both cached, each holding its own result, and the
\* latest call read page 2 back.
C18_Witness ==
  /\ hist # <<>>
  /\ Latest(hist).op = "getCachedUserProperties" /\ Latest(hist).avail
  /\ Latest(hist).arg = <<"u1", <<2, 10>>>>
  /\ Latest(hist).val # Null
  /\ Latest(hist).val.page = 2
  /\ KEYS_USER_PROPERTIES("u1", 1, 10) \in DOMAIN cache
  /\ Held(cache, KEYS_USER_PROPERTIES("u1", 1, 10)).page = 1

\* ---- C19
\* C19: a request to a management route (stats, clear, clearUser,
\* clearProperty, clearSearch, health) served while the store is unavailable
\* is answered 503 with success false.
C19_AdminUnavailable ==
  (last.op \in AdminRoutes /\ ~last.avail) =>
    (last.status = 503 /\ last.body.success = FALSE)

\* ---- C20
\* the text under key in keyspace c is one JSON.parse rejects
Undecodable(c, key) == key \in DOMAIN c /\ ~Parses(c[key].val)

\* the entity a 200 answer of a read-through handler carries
Answered(l) == IF l.op = "getProfile" THEN l.body.user ELSE l.body.property

\* C20: a getCached* call on a key holding undecodable text returns a miss and
\* does not raise; a getPropertyById or getProfile on such a key is not a hit
\* and does not fail, reads the durable store, and when it answers 200 the key
\* afterwards holds the decodable entity it answered with.
C20_DecodeErrorIsMiss ==
  [][/\ (/\ hist' # hist
         /\ Latest(hist').op \in Getters
         /\ Latest(hist').avail
         /\ \E k \in Latest(hist').keys : Undecodable(cache, k))
        => (~Latest(hist').err /\ Latest(hist').val = Null)
     /\ (/\ last' # last
         /\ last'.op \in {"getPropertyById", "getProfile"}
         /\ last'.avail
         /\ Undecodable(cache, last'.key))
        => /\ ~last'.hit
           /\ last'.status # 500
           /\ last'.dbReads > 0
           /\ last'.status = 200 =>
                /\ ~Undecodable(cache', last'.key)
                /\ last'.key \in DOMAIN cache'
                /\ Held(cache', last'.key) = Answered(last')]_vars

\* getPropertyById found undecodable text under its key, answered 200 from
\* the durable store and left a decodable entry under the key.
C20_Witness ==
  /\ last.op = "getPropertyById" /\ last.avail /\ last.status = 200
  /\ Undecodable(last.pre, last.key)
  /\ ~last.hit
  /\ ~Undecodable(cache, last.key)
  /\ hist # <<>> /\ Latest(hist).op = "getCachedProperty"
  /\ Latest(hist).had /\ Latest(hist).avail /\ Latest(hist).val = Null

\* ---- C21
\* the property entry of i holds a value other than the durable store's
Stale(i) ==
  /\ KEYS_PROPERTY(i) \in DOMAIN cache
  /\ \/ properties[i] = NoDoc
     \/ Held(cache, KEYS_PROPERTY(i)) # PropertyJSON(properties[i])

\* C21: every entry expires no later than its family's TTL after now; a step
\* that changes the expiry of an entry that stays is a write of the entry
\* made at that moment (expiry = time of the write + TTL); and with Redis
\* expiring keys, a stale property entry is eventually absent or no longer
\* stale.
C21_StalenessBounded ==
  /\ [][\A k \in DOMAIN cache' :
          /\ cache'[k].exp > clock'
          /\ cache'[k].exp <= clock' + FamilyTTL(k)
          /\ (k \in DOMAIN cache /\ cache'[k].exp # cache[k].exp)
               => (cache'[k].exp = clock' + FamilyTTL(k) /\ last' # last)]_vars
  /\ \A i \in PropIds : Stale(i) ~> ~Stale(i)

\* updateProperty ran while the store was unavailable and left the old value
\* cached; by now the entry has run out of time and is gone.
C21_Witness ==
  /\ last.op = "updateProperty" /\ last.status = 200 /\ ~last.avail
  /\ KEYS_PROPERTY(last.arg) \in DOMAIN last.pre
  /\ Held(last.pre, KEYS_PROPERTY(last.arg)) # PropertyJSON(properties[last.arg])
  /\ clock >= last.pre[KEYS_PROPERTY(last.arg)].exp
  /\ KEYS_PROPERTY(last.arg) \notin DOMAIN cache

\* ---- C22
\* both slots hold an updateProperty of property i that has answered 200
TwoUpdatesDone(i) ==
  /\ DOMAIN inflight = Slots
  /\ \A s \in Slots :
       /\ inflight[s].op = "updateProperty" /\ inflight[s].arg = i
       /\ Done(inflight[s]) /\ inflight[s].status = 200

\* the request whose cacheProperty write reached the store last
LastWriter == CHOOSE s \in Slots : \A t \in Slots : inflight[t].seq <= inflight[s].seq

\* C22: once two concurrent updateProperty requests on one property have both
\* completed, the property's entry, if present, holds the document that the
\* cacheProperty call which reached the store last was given.
C22_LastWriterWins ==
  \A i \in PropIds :
    (TwoUpdatesDone(i) /\ KEYS_PROPERTY(i) \in DOMAIN cache) =>
      /\ inflight[LastWriter].seq > 0
      /\ Held(cache, KEYS_PROPERTY(i)) = PropertyJSON(inflight[LastWriter].doc)

\* Both updates wrote through, and the entry left by the later write is not
\* the document the durable store ends with.
C22_Witness ==
  /\ TwoUpdatesDone(PropOid[1])
  /\ \A s \in Slots : inflight[s].seq > 0
  /\ KEYS_PROPERTY(PropOid[1]) \in DOMAIN cache
  /\ Held(cache, KEYS_PROPERTY(PropOid[1])) # PropertyJSON(properties[PropOid[1]])

\* ---- C23
Mutations == {"updateProperty", "deleteProperty"}

\* the step taken is an await of the request in slot s
Stepped(s) == s \in DOMAIN inflight /\ inflight'[s] # inflight[s]

C24_SnapshotDelete ==
  [][\A s \in Slots :
       (Stepped(s) /\ Available) =>
         LET r == inflight[s]
             h == Head(r.pc)
         IN  /\ h[1] = "keys" =>
                  /\ cache' = cache
                  /\ MatchingIn(cache, h[2]) # {} =>
                       inflight'[s].keys = MatchingIn(cache, h[2])
             /\ h[1] = "del" =>
                  /\ DOMAIN cache' = DOMAIN cache \ r.keys
                  /\ \A k \in DOMAIN cache' : cache'[k] = cache[k]]_vars

\* deleteProperty has deleted its snapshot of the search keys, and a search
\* key written by another request after the snapshot was taken is present.
C24_Witness ==
  \E s \in DOMAIN inflight :
    /\ inflight[s].op = "deleteProperty"
    /\ ~Done(inflight[s])
    /\ Head(inflight[s].pc) = <<"keys", PAT_ALL_USER_PROPERTIES>>
    /\ inflight[s].keys # {}
    /\ inflight[s].keys \cap DOMAIN cache = {}
    /\ MatchingIn(cache, PAT_SEARCH) # {}

\* ---- C25
\* the entries of keyspace c in the invalidation scope of mutation request r:
\* the property's key, the search keys, the list pages of the user
ScopeIn(c, r) ==
  ({KEYS_PROPERTY(r.arg)} \cap DOMAIN c)
  \cup MatchingIn(c, PAT_SEARCH) \cup MatchingIn(c, PatUserProperties(r.user))

\* C25: a step of an update or delete request that removes entries of the
\* request's invalidation scope leaves no entry of that scope behind, so no
\* other request can find the scope partly removed.
C25_ScopeAtomic ==
  [][\A s \in Slots :
       (/\ Stepped(s) /\ inflight[s].op \in Mutations
        /\ ScopeIn(cache, inflight[s]) \ DOMAIN cache' # {})
       => ScopeIn(cache', inflight[s]) = {}]_vars

\* ---- C26
\* the two slots hold one getPropertyById and one updateProperty of property
\* i, and both have answered
ReadAndUpdateDone(i) ==
  /\ DOMAIN inflight = Slots
  /\ \E s, t \in Slots :
       /\ inflight[s].op = "getPropertyById" /\ inflight[t].op = "updateProperty"
       /\ inflight[s].arg = i /\ inflight[t].arg = i
       /\ Done(inflight[s]) /\ Done(inflight[t])

\* C26: with the store available, once a getPropertyById and an
\* updateProperty of one property, interleaved in any order, have both
\* completed, the property's entry is absent or holds the property's
\* document in the durable store.
C26_QuiescentConsistency ==
  \A i \in PropIds :
    (Available /\ ReadAndUpdateDone(i) /\ KEYS_PROPERTY(i) \in DOMAIN cache) =>
      /\ properties[i] # NoDoc
      /\ Held(cache, KEYS_PROPERTY(i)) = PropertyJSON(properties[i])

\* ---- C27
AlreadyFavorite == Fail("Property is already in your favorites")

\* C27: addToFavorites(u, p) answers 'Property is already in your favorites'
\* only when the durable store holds a favorite of u for p.
C27_StoreDecides ==
  (last.op = "addToFavorites" /\ last.body = AlreadyFavorite) =>
    FindFavorite(last.user, last.arg) # NoDoc

\* ---- C28
PropertyMutations == {"createProperty", "updateProperty", "deleteProperty"}

\* C28: a createProperty, updateProperty or deleteProperty request of user u
\* leaves every list page user:properties:v:* of every other user v as it
\* was before the request.
C28_OtherListsKept ==
  (last.op \in PropertyMutations) =>
    \A v \in Users \ {last.user} :
      \A k \in MatchingIn(last.pre, PatUserProperties(v)) :
        k \in DOMAIN cache /\ cache[k] = last.pre[k]

\* ---- C29
\* C29: with no favorite mutated since the entry was written, the response a
\* getUserFavorites request is served from the cache is the response the
\* durable store gives for the page, limit and sortBy of that request.
C29_HitAnswersRequest ==
  (last.op = "getUserFavorites" /\ last.hit) =>
    last.body = ToJSON(FavoritesResponse(last.user, last.arg[1][1], last.arg[1][2],
                                         last.arg[2], last.arg[3]))

\* ---- C30
\* the latest request is a getUserFavorites with a search filter
FilteredListing == last.op = "getUserFavorites" /\ last.arg[2] # ""

\* C30: a getUserFavorites request with a search filter leaves the keyspace
\* as it was, is not served from the cache, and answers with the filtered
\* result of the durable store.
C30_FilteredBypass ==
  FilteredListing =>
    /\ cache = last.pre
    /\ ~last.hit
    /\ last.body = ToJSON(FavoritesResponse(last.user, last.arg[1][1], last.arg[1][2],
                                            last.arg[2], last.arg[3]))

\* A filtered request was answered while the unfiltered entry for the same
\* user, page and limit was cached and held a different result.
C30_Witness ==
  /\ FilteredListing /\ last.avail /\ last.status = 200
  /\ KEYS_USER_FAVORITES(last.user, last.arg[1][1], last.arg[1][2]) \in DOMAIN cache
  /\ Held(cache, KEYS_USER_FAVORITES(last.user, last.arg[1][1], last.arg[1][2]))
       # last.body
  /\ Len(last.body.favorites) = 1

\* ---- C31
\* the copies of property i that the entry under key k of keyspace c embeds
ViewsOf(c, k, i) ==
  LET v == Held(c, k)
  IN  IF k[1] = "property" THEN (IF v._id = i THEN {v} ELSE {})
      ELSE IF k[2] = "properties"
           THEN {v.properties[j] : j \in {n \in DOMAIN v.properties :
                                            v.properties[n]._id = i}}
      ELSE IF k[1] = "user" /\ k[2] = "favorites"
           THEN {v.favorites[j].property : j \in {n \in DOMAIN v.favorites :
                                            v.favorites[n].property._id = i}}
      ELSE {}

\* some entry of keyspace c holds a copy of property i that the durable
\* store does not hold
StaleView(c, i) ==
  \E k \in DOMAIN c : \E v \in ViewsOf(c, k, i) :
    properties[i] = NoDoc \/ v.price # properties[i].price

\* C31: once updateProperty or deleteProperty on P has completed with the
\* store available, no cached entry of any family, the favorites lists of
\* the users who favorited P included, holds a copy of P that differs from
\* the durable store.
C31_NoStaleView ==
  (last.op \in {"updateProperty", "deleteProperty"} /\ last.status = 200
     /\ last.avail) => ~StaleView(cache, last.arg)

\* ---- C32
\* C32: isConnected() is true only with a client whose transport reports
\* ready, and turns true only through a connect() whose ping was answered
\* or through the transport re-establishing the connection; it is false
\* before connect(), right after a connect() that failed, once the
\* transport has left the ready state, and after disconnect().
C32_AvailabilityFlag ==
  [][/\ Available' => (client' /\ status' = "ready")
     /\ (Available' /\ ~Available) =>
          \/ phase = "boot" /\ phase' = "serving"
          \/ client /\ status = "reconnecting" /\ phase' = phase
     /\ phase = "boot" => ~Available
     /\ (phase = "boot" /\ (~client' \/ status' # "ready")) => ~Available'
     /\ (status = "ready" /\ status' # "ready") => ~Available'
     /\ phase' = "stopped" => ~Available']_vars

\* The flag was true, the transport left the ready state with the client
\* still assigned, and a call was made while it was false.
C32_Witness ==
  /\ client /\ status = "reconnecting" /\ ~Available
  /\ Len(hist) = 2
  /\ hist[1].avail /\ ~hist[2].avail

\* ---- C33
\* C33: connect() returns without raising whether REDIS_URL is missing or
\* the ping fails, so start-up goes on to serving; isConnected() is false
\* after such a connect(), and while the store stays unavailable every
\* CacheService call returns without raising, a getCached* call returns a
\* miss and nothing is written.
C33_FailedConnectDegrades ==
  [][/\ phase = "boot" => phase' = "serving"
     /\ (phase = "boot" /\ (~client' \/ status' # "ready")) => ~Available'
     /\ (hist' # hist /\ ~Available) =>
          /\ ~Latest(hist').err
          /\ Latest(hist').op \in Getters => Latest(hist').val = Null
          /\ cache' = cache]_vars

\* REDIS_URL was missing: the server serves with no client, a cacheProperty
\* returned and the getCachedProperty of the same property missed.
C33_Witness ==
  /\ phase = "serving" /\ ~client
  /\ Len(hist) = 2
  /\ hist[1].op = "cacheProperty" /\ ~hist[1].err /\ ~hist[1].changed
  /\ hist[2].op = "getCachedProperty" /\ hist[2].arg = hist[1].arg._id
  /\ ~hist[2].err /\ hist[2].val = Null

\* ---- C34
\* the same CacheService call made on an empty keyspace
Replay(h) ==
  CASE h.op = "cacheProperty" -> CacheProperty(EmptyCache, h.arg)
    [] h.op = "cacheUserProfile" -> CacheUserProfile(EmptyCache, h.arg)
    [] h.op = "cachePropertySearch" ->
         CachePropertySearch(EmptyCache, h.arg, SampleList)
    [] h.op = "cacheUserProperties" ->
         CacheUserProperties(EmptyCache, h.arg[1], h.arg[2][1], h.arg[2][2],
                             ListResponse(SampleList.properties, 1,
                                          h.arg[2][1], h.arg[2][2]))
    [] h.op = "cacheFavoriteStatus" ->
         CacheFavoriteStatus(EmptyCache, h.arg[1], h.arg[2], h.arg[3])
    [] h.op = "cacheUserFavorites" ->
         CacheUserFavorites(EmptyCache, h.arg, 1, 10, SampleFavList)
    [] OTHER -> Outcome(EmptyCache, FALSE, Null)

\* C34: every CacheService call leaves each key untouched, deleted, or set
\* to a complete entry with its expiry; the entry a cache<Type> call sets
\* is the one the same call sets on an empty keyspace, whatever the key held
\* before, and no entry is ever without an expiry.
C34_OverwriteOrDelete ==
  [][hist' # hist =>
       LET fresh == Replay(Latest(hist')).c
       IN  /\ \A k \in DOMAIN cache' :
                 /\ cache'[k].ttl > 0
                 /\ \/ k \in DOMAIN cache /\ cache'[k] = cache[k]
                    \/ k \in DOMAIN fresh /\ cache'[k] = fresh[k]
           /\ Available =>
                 \A k \in DOMAIN fresh :
                   k \in DOMAIN cache' /\ cache'[k] = fresh[k]]_vars

\* A favorite-status entry was overwritten by a second cacheFavoriteStatus
\* with the opposite status.
C34_Witness ==
  /\ Len(hist) = 2
  /\ hist[1].op = "cacheFavoriteStatus" /\ hist[1].changed
  /\ hist[2].op = "cacheFavoriteStatus" /\ hist[2].changed
  /\ hist[1].arg[3].isFavorited # hist[2].arg[3].isFavorited
  /\ Held(cache, KEYS_FAVORITE_STATUS("u1", PropOid[1])) = hist[2].arg[3]

\* ---- C35
\* C35: every await of invalidateProperty, invalidateUserProperties and
\* invalidateFavorites returns without raising and hands over to the next
\* delete step in program order, whether or not the store answered it; a
\* step the store rejects changes nothing, so keys removed by earlier steps
\* stay removed, and a step the store answers removes its keys whatever
\* happened to the steps before it.
C35_StepsIndependent ==
  [][\A s \in DOMAIN inflight :
       (inflight[s].op \in Invalidations /\ inflight'[s] # inflight[s]) =>
         LET r == inflight[s]
             h == Head(r.pc)
         IN  /\ inflight'[s].status = 0
             /\ inflight'[s].pc \in {Tail(r.pc)} \cup
                   (IF h[1] = "keys" THEN {Tail(Tail(r.pc))} ELSE {})
             /\ DOMAIN cache' \subseteq DOMAIN cache
             /\ \A k \in DOMAIN cache' : cache'[k] = cache[k]
             /\ ~Available => cache' = cache
             /\ (Available /\ h[1] = "delKey") => h[2] \notin DOMAIN cache'
             /\ (Available /\ h[1] = "keys" /\ MatchingIn(cache, h[2]) # {}) =>
                   /\ inflight'[s].pc = Tail(r.pc)
                   /\ inflight'[s].keys = MatchingIn(cache, h[2])
             /\ (Available /\ h[1] = "del") => r.keys \cap DOMAIN cache' = {}]_vars

\* invalidateProperty has returned: its single-key delete was rejected, so
\* the property entry written before is still there, and a later pattern
\* delete went through and removed the search entry written before.
C35_Witness ==
  /\ "r1" \in DOMAIN inflight
  /\ inflight["r1"].op = "invalidateProperty" /\ Done(inflight["r1"])
  /\ inflight["r1"].status = 0
  /\ Len(hist) = 2
  /\ hist[1].op = "cacheProperty" /\ hist[1].changed
  /\ hist[1].arg._id = inflight["r1"].arg
  /\ hist[2].op = "cachePropertySearch" /\ hist[2].changed
  /\ KEYS_PROPERTY(inflight["r1"].arg) \in DOMAIN cache
  /\ MatchingIn(cache, PAT_SEARCH) = {}

\* ---- C36
\* C36: for identifiers without ':' and glob characters, keys of different
\* families are different texts, and the pattern built for user u in the
\* user-properties, user-favorites or favorite-status family matches a key
\* exactly when the key is of that family and of user u, a user whose id
\* starts with u included.
C36_FamiliesDisjoint ==
  /\ Len(hist) = 2 =>
       (hist[1].family # hist[2].family => hist[1].text # hist[2].text)
  /\ last.op = "keys" =>
       (last.matched <=> (last.key.family = last.family /\ last.key.user = last.user))

\* The pattern of u1 was matched against a key of u10 in the same family and
\* did not match it, and against u1's own key and matched.
C36_Witness ==
  /\ last.op = "keys" /\ last.user = "u1" /\ last.family = "user:properties"
  /\ last.key.family = "user:properties" /\ last.key.user = "u1" /\ last.matched
  /\ Len(hist) = 2
  /\ hist[1].family = "user:properties" /\ hist[1].user = "u10"
  /\ ~RedisGlob(FamilyPattern("user:properties", "u1"), hist[1].text)

\* ---- C37
\* both requests are addToFavorites of one (user, property) pair whose
\* property they found, and both have answered
TwoAddsDone ==
  /\ DOMAIN inflight = Slots
  /\ \A s \in Slots : /\ inflight[s].op = "addToFavorites"
                       /\ Done(inflight[s])
                       /\ inflight[s].status # 404
  /\ inflight["r1"].user = inflight["r2"].user
  /\ inflight["r1"].arg = inflight["r2"].arg

\* the durable store holds exactly one favorite of the pair and one request
\* answered 201, the other 400
OneFavoriteOfPair ==
  /\ Cardinality({f \in favorites : /\ f.userId = inflight["r1"].user
                                     /\ f.propertyId = inflight["r1"].arg}) = 1
  /\ {inflight[s].status : s \in Slots} = {201, 400}

RouteCaches == {"propertyDetailCache", "publicPropertyCache"}

\* C38: a request through the cache middleware is either answered from the
\* cache, with the cached body and without the downstream handler, or handed
\* to the downstream handler; the keyspace changes only on a miss whose
\* response status is in 200..299, and then by the response body stored
\* under the route's key; with the skip condition true or the store not
\* connected the cache is neither read nor written; an entry that cannot be
\* decoded and a rejected GET hand the request to the downstream handler.
C38_RouteCache ==
  [][(last' # last /\ last'.op \in RouteCaches) =>
       LET l == last'
       IN  /\ l.hit => /\ ~l.next /\ l.status = 200 /\ cache' = cache
                        /\ l.key \in DOMAIN cache /\ l.body = Held(cache, l.key)
           /\ ~l.hit => l.next
           /\ (l.skip \/ ~l.avail) => (l.next /\ ~l.read /\ cache' = cache)
           /\ cache' # cache =>
                 /\ l.status \in 200..299 /\ ~l.hit /\ l.key \notin DOMAIN cache
                 /\ DOMAIN cache' = DOMAIN cache \cup {l.key}
                 /\ Held(cache', l.key) = l.body
                 /\ \A k \in DOMAIN cache : cache'[k] = cache[k]
           /\ (l.read /\ l.next /\ l.lost = "no" /\ l.status \in 200..299
                 /\ l.key \notin DOMAIN cache) => l.key \in DOMAIN cache'
           /\ (l.read /\ l.key \in DOMAIN cache /\ ~Parses(cache[l.key].val)) => l.next
           /\ l.lost = "get" => l.next]_vars

\* A miss stored the handler's 200 body, and the next request of the route
\* was answered with it although its handler would have answered otherwise.
C38_Witness ==
  /\ last.op = "propertyDetailCache" /\ last.hit /\ ~last.next
  /\ last.key \in DOMAIN last.pre
  /\ last.pre[last.key].ttl = 900
  /\ last.body = Held(last.pre, last.key)
  /\ last.body.message = "one"

\* ---- C39
\* C39: every entry under property:<k> holds one property object whose _id
\* is k, and every entry under user:profile:<k> holds a user object whose
\* _id is k and which has no password field.
C39_SingularShape ==
  \A key \in DOMAIN cache :
    /\ key[1] = "property" =>
         LET v == Held(cache, key)
         IN  /\ DOMAIN v = DOMAIN PropertyDoc("", "", "", 0)
             /\ v._id = key[2]
    /\ (key[1] = "user" /\ key[2] = "profile") =>
         LET v == Held(cache, key)
         IN  /\ {"_id", "username"} \subseteq DOMAIN v
             /\ "password" \notin DOMAIN v
             /\ v._id = key[3]

\* A login cached the profile of a user read with select('+password'), and
\* a property created by that user sits under its own key.
C39_Witness ==
  /\ last.op = "login" /\ last.status = 200
  /\ KEYS_USER_PROFILE(last.user) \in DOMAIN cache
  /\ "password" \in DOMAIN users[last.user]
  /\ \E i \in PropIds : /\ KEYS_PROPERTY(i) \in DOMAIN cache
                         /\ Held(cache, KEYS_PROPERTY(i)).createdBy = last.user

====
